---- MODULE Spec2Model ----
(***************************************************************************)
(* A model of CubejsServerCore (src/unnamed/part_001): the tenant-keyed    *)
(* compiler cache, the orchestrator registry, the per-data-source driver   *)
(* acquisition of getOrchestratorApi, and the scheduled-refresh interval.  *)
(***************************************************************************)
EXTENDS Integers, Sequences, FiniteSets, TLC

(* ------------------------------ bounds --------------------------------- *)
MaxOrch == 2
MaxAttempts == 2
MaxCalls == 2

(* ----------------------------- contexts -------------------------------- *)
\* Request contexts; acme1 and acme2 belong to the same application.
Contexts == {"acme1", "acme2", "beta", "gamma"}

\* The contexts whose requests reach the drivers in SpecBroker.
BrokerContexts == {"acme1", "acme2"}

\* options.contextToAppId applied to a context.
contextToAppId(ctx) == IF ctx \in {"acme1", "acme2"} THEN "acme" ELSE ctx

\* A configured options.contextToOrchestratorId: one orchestrator per context.
customOrchestratorId(ctx) == ctx

DataSources == {"default", "other"}

VARIABLES
  \* options and environment
  optOrchestratorIdFn,  \* options.contextToOrchestratorId is configured
  optCompilerCacheSize, \* options.compilerCacheSize (0: not set)
  optMaxAge,            \* options.maxCompilerCacheKeepAlive (0: not set)
  optUpdateAgeOnGet,    \* options.updateCompilerCacheKeepAlive
  optDbType,            \* options.dbType is defined
  envDbType,            \* process.env.CUBEJS_DB_TYPE is defined
  optScheduledRefreshTimer, \* options.scheduledRefreshTimer
  optSchemaVersion,     \* options.schemaVersion is configured
  currentVersion,       \* what options.schemaVersion(context) returns now
  \* the coordinator's own driver
  driver,               \* this.driver (0: null)
  driverCalls,          \* the getDriver(ctx) calls made on the coordinator
  \* orchestrator registry
  orchestrators,        \* the OrchestratorApi objects created so far
  storage,              \* orchestratorStorage: orchestrator id -> object (0: none)
  clears,               \* how many times the registry was emptied
  held,                 \* the orchestrator each context last got from getOrchestratorApi
  seenOrch,             \* the same, forgotten when the registry is emptied
  \* driver acquisition
  driverPromise,        \* per orchestrator, the closure's driverPromise record
  attempts,             \* the inner async functions started by getDriver
  calls,                \* the getDriver calls made, with the promise each returned
  \* compiler cache
  compilerCache,        \* the LRU cache's entries, most recently used first
  clock,                \* Date.now()
  compilers,            \* the CompilerApi objects created so far
  maxCompilerCacheKeep, \* the prune timer is set
  lastReturned,         \* per app id, the artifact getCompilerApi last returned
  recency,              \* the cached keys by their last use, latest first
  \* scheduled refresh and lifecycle
  intervals,            \* the cancelable intervals created so far
  scheduledRefreshTimerInterval, \* the field: an interval (0: null)
  logged,               \* the scheduler events the logger received
  ops,                  \* the lifecycle calls made (releaseConnections, ...)
  \* background contexts
  warningBackgroundContextShow, \* the field of that name
  migrations,           \* the migrateBackgroundContext calls made: argument and result
  refreshRuns,          \* the handleScheduledRefreshInterval calls and their refreshes
  \* external (cache-storage) driver acquisition
  externalPreAggregationsDriverPromise, \* per orchestrator, the closure variable
  externalAttempts,     \* the inner async functions started by getExternalDriverFactory
  externalCalls         \* the getExternalDriverFactory calls made

versionVars == <<optSchemaVersion, currentVersion>>
fallbackVars == <<driver, driverCalls>>
cfgVars == <<optOrchestratorIdFn, optCompilerCacheSize, optMaxAge, optUpdateAgeOnGet,
             optDbType, envDbType, optScheduledRefreshTimer, versionVars, fallbackVars>>
registryVars == <<orchestrators, storage, clears, held, seenOrch>>
brokerVars == <<driverPromise, attempts, calls>>
cacheVars == <<compilerCache, clock, compilers, maxCompilerCacheKeep, lastReturned,
              recency>>
schedVars == <<intervals, scheduledRefreshTimerInterval, logged, ops>>
contextVars == <<warningBackgroundContextShow, migrations, refreshRuns>>
externalVars == <<externalPreAggregationsDriverPromise, externalAttempts, externalCalls>>

vars == <<cfgVars, registryVars, brokerVars, cacheVars, schedVars, contextVars,
          externalVars>>

OrchestratorIds == {contextToAppId(c) : c \in Contexts} \cup
                   {customOrchestratorId(c) : c \in Contexts}

\* this.contextToOrchestratorId = options.contextToOrchestratorId || this.contextToAppId
contextToOrchestratorId(ctx) ==
  IF optOrchestratorIdFn THEN customOrchestratorId(ctx) ELSE contextToAppId(ctx)

(* ------------------------ orchestrator registry ------------------------ *)
\* OrchestratorStorage.has / get / set
StorageHas(id) == storage[id] # 0
StorageGet(id) == storage[id]
StorageSet(st, id, o) == [st EXCEPT ![id] = o]

\* const driverPromise = {}
EmptySlots == [ds \in DataSources |-> 0]

\* getOrchestratorApi without the registry lookup: every call builds an orchestrator.
GetOrchestratorApiNoLookup(ctx) ==
  LET id == contextToOrchestratorId(ctx)
      o == Len(orchestrators) + 1
  IN /\ o <= MaxOrch
     /\ orchestrators' = Append(orchestrators,
                                [id |-> id, context |-> ctx, epoch |-> clears,
                                 released |-> 0])
     /\ driverPromise' = Append(driverPromise, EmptySlots)
     /\ externalPreAggregationsDriverPromise' =
          Append(externalPreAggregationsDriverPromise, 0)
     /\ storage' = StorageSet(storage, id, o)
     /\ held' = [held EXCEPT ![ctx] = o]
     /\ seenOrch' = [seenOrch EXCEPT ![ctx] = o]
     /\ UNCHANGED <<externalAttempts, externalCalls, contextVars, cfgVars, clears,
                    attempts, calls, cacheVars, schedVars>>

\* getOrchestratorApi(context): the registered orchestrator of the context's id, or
\* a new one with an empty driverPromise record, registered under that id.
GetOrchestratorApi(ctx) ==
  LET id == contextToOrchestratorId(ctx)
      o == Len(orchestrators) + 1
  IN IF StorageHas(id)
       THEN /\ held' = [held EXCEPT ![ctx] = StorageGet(id)]
            /\ seenOrch' = [seenOrch EXCEPT ![ctx] = StorageGet(id)]
            /\ UNCHANGED <<externalVars, contextVars, cfgVars, orchestrators, storage, clears, brokerVars,
                           cacheVars, schedVars>>
       ELSE /\ o <= MaxOrch
            /\ orchestrators' = Append(orchestrators,
                                       [id |-> id, context |-> ctx, epoch |-> clears,
                                        released |-> 0])
            /\ driverPromise' = Append(driverPromise, EmptySlots)
            /\ externalPreAggregationsDriverPromise' =
                 Append(externalPreAggregationsDriverPromise, 0)
            /\ storage' = StorageSet(storage, id, o)
            /\ held' = [held EXCEPT ![ctx] = o]
            /\ seenOrch' = [seenOrch EXCEPT ![ctx] = o]
            /\ UNCHANGED <<externalAttempts, externalCalls, contextVars, cfgVars, clears,
                           attempts, calls, cacheVars, schedVars>>

(* ------------------------- driver acquisition -------------------------- *)
\* An attempt is one run of the inner async function of getDriver. Its promise is
\* pending while pc is factory, test or release, and settled at resolved/rejected.
\* driver is the handle the factory returned (0: null); a handle is named by the
\* attempt whose factory call produced it.
Settled(a) == a.pc \in {"resolved", "rejected"}

\* What a caller holding the promise of attempt i observes.
Outcome(i) ==
  LET a == attempts[i]
  IN IF a.pc = "resolved" THEN <<"driver", a.driver, "">>
     ELSE IF a.pc = "rejected" THEN <<"error", a.errOf, a.err>>
     ELSE <<"pending", 0, "">>

AttemptsOf(o, ds) == {i \in 1..Len(attempts) : attempts[i].orch = o /\ attempts[i].ds = ds}

\* The first attempt on a slot has not settled yet (or was not started).
FirstUnsettled(o, ds) ==
  \/ AttemptsOf(o, ds) = {}
  \/ LET first == CHOOSE i \in AttemptsOf(o, ds) : \A j \in AttemptsOf(o, ds) : i <= j
     IN ~Settled(attempts[first])

\* getDriver(dataSource = 'default')
DataSourceArg(dsArg) == IF dsArg = "undefined" THEN "default" ELSE dsArg

NewAttempt(o, ds, pc, err) ==
  [orch |-> o, ds |-> ds, pc |-> pc, driver |-> 0, err |-> err,
   errOf |-> IF err = "" THEN 0 ELSE Len(attempts) + 1,
   tested |-> 0, released |-> 0]

\* if (driverPromise[dataSource]) return driverPromise[dataSource]
CachedPromise(o, ds) == driverPromise[o][ds]

\* getDriver on the orchestrator held by ctx. The inner function runs to its first
\* await inside the call: the factory is invoked, and either returns (the attempt
\* awaits the result) or throws, in which case the catch block clears the slot and
\* rethrows before the assignment stores the already rejected promise.
GetDriver(ctx, dsArg, factoryThrows) ==
  LET o == held[ctx]
      ds == DataSourceArg(dsArg)
      early == FirstUnsettled(o, ds)
      i == Len(attempts) + 1
  IN /\ o # 0
     /\ Len(calls) < MaxCalls
     /\ IF CachedPromise(o, ds) # 0
          THEN /\ ~factoryThrows
               /\ calls' = Append(calls, [ctx |-> ctx, orch |-> o, ds |-> ds,
                                          promise |-> CachedPromise(o, ds),
                                          early |-> early])
               /\ UNCHANGED <<attempts, driverPromise>>
          ELSE /\ i <= MaxAttempts
               /\ attempts' = Append(attempts,
                      IF factoryThrows THEN NewAttempt(o, ds, "rejected", "factory")
                                       ELSE NewAttempt(o, ds, "factory", ""))
               /\ driverPromise' = [driverPromise EXCEPT ![o][ds] = i]
               /\ calls' = Append(calls, [ctx |-> ctx, orch |-> o, ds |-> ds,
                                          promise |-> i, early |-> early])
     /\ UNCHANGED <<externalVars, contextVars, cfgVars, registryVars, cacheVars, schedVars>>

\* catch (e) { driverPromise[dataSource] = null; ... }
CatchResetSlot(o, ds) == [driverPromise EXCEPT ![o][ds] = 0]

\* The factory's promise rejects: the slot is cleared, there is no driver to release.
FactoryRejects(i) ==
  /\ i \in 1..Len(attempts)
  /\ attempts[i].pc = "factory"
  /\ attempts' = [attempts EXCEPT ![i].pc = "rejected", ![i].err = "factory", ![i].errOf = i]
  /\ driverPromise' = CatchResetSlot(attempts[i].orch, attempts[i].ds)
  /\ UNCHANGED <<externalVars, contextVars, cfgVars, registryVars, calls, cacheVars, schedVars>>

\* The factory resolves with null and testConnection is started all the same.
FactoryReturnsNullTested(i) ==
  /\ i \in 1..Len(attempts)
  /\ attempts[i].pc = "factory"
  /\ attempts' = [attempts EXCEPT ![i].pc = "test", ![i].tested = 1]
  /\ UNCHANGED <<externalVars, contextVars, cfgVars, registryVars, driverPromise, calls, cacheVars,
                 schedVars>>

\* The factory resolves with null (the default factory without a dbType):
\* driver.setLogger throws a TypeError, caught with driver still null.
FactoryReturnsNull(i) ==
  /\ i \in 1..Len(attempts)
  /\ attempts[i].pc = "factory"
  /\ attempts' = [attempts EXCEPT ![i].pc = "rejected", ![i].err = "null", ![i].errOf = i]
  /\ driverPromise' = CatchResetSlot(attempts[i].orch, attempts[i].ds)
  /\ UNCHANGED <<externalVars, contextVars, cfgVars, registryVars, calls, cacheVars, schedVars>>

\* The factory resolves with a handle. setLogger is called when the handle has it;
\* if it throws, the catch block clears the slot and starts release(); otherwise
\* testConnection() is started.
FactoryReturns(i, hasSetLogger, setLoggerThrows) ==
  /\ i \in 1..Len(attempts)
  /\ attempts[i].pc = "factory"
  /\ setLoggerThrows => hasSetLogger
  /\ IF setLoggerThrows
       THEN /\ attempts' = [attempts EXCEPT ![i].driver = i,
                                            ![i].err = "setLogger", ![i].errOf = i,
                                            ![i].pc = "release", ![i].released = 1]
            /\ driverPromise' = CatchResetSlot(attempts[i].orch, attempts[i].ds)
       ELSE /\ attempts' = [attempts EXCEPT ![i].driver = i,
                                            ![i].pc = "test", ![i].tested = 1]
            /\ UNCHANGED driverPromise
  /\ UNCHANGED <<externalVars, contextVars, cfgVars, registryVars, calls, cacheVars, schedVars>>

\* testConnection() resolves and the slot is cleared on the way out.
TestConnectionResolvesAndClears(i) ==
  /\ i \in 1..Len(attempts)
  /\ attempts[i].pc = "test"
  /\ attempts' = [attempts EXCEPT ![i].pc = "resolved"]
  /\ driverPromise' = CatchResetSlot(attempts[i].orch, attempts[i].ds)
  /\ UNCHANGED <<externalVars, contextVars, cfgVars, registryVars, calls, cacheVars, schedVars>>

\* testConnection() resolves: the inner function returns the driver.
TestConnectionResolves(i) ==
  /\ i \in 1..Len(attempts)
  /\ attempts[i].pc = "test"
  /\ attempts' = [attempts EXCEPT ![i].pc = "resolved"]
  /\ UNCHANGED <<externalVars, contextVars, cfgVars, registryVars, driverPromise, calls, cacheVars, schedVars>>

\* testConnection() rejects and the catch block clears the external variable too.
TestConnectionRejectsClearingExternal(i) ==
  /\ i \in 1..Len(attempts)
  /\ attempts[i].pc = "test"
  /\ attempts' = [attempts EXCEPT ![i].pc = "release", ![i].err = "test", ![i].errOf = i,
                                  ![i].released = 1]
  /\ driverPromise' = CatchResetSlot(attempts[i].orch, attempts[i].ds)
  /\ externalPreAggregationsDriverPromise' =
       [externalPreAggregationsDriverPromise EXCEPT ![attempts[i].orch] = 0]
  /\ UNCHANGED <<externalAttempts, externalCalls, contextVars, cfgVars, registryVars, calls,
                 cacheVars, schedVars>>

\* testConnection() rejects: the catch block clears the slot and starts release().
TestConnectionRejects(i) ==
  /\ i \in 1..Len(attempts)
  /\ attempts[i].pc = "test"
  /\ attempts' = [attempts EXCEPT ![i].pc = "release", ![i].err = "test", ![i].errOf = i,
                                  ![i].released = 1]
  /\ driverPromise' = CatchResetSlot(attempts[i].orch, attempts[i].ds)
  /\ UNCHANGED <<externalVars, contextVars, cfgVars, registryVars, calls, cacheVars, schedVars>>

\* await driver.release() resolves: throw e.
ReleaseResolves(i) ==
  /\ i \in 1..Len(attempts)
  /\ attempts[i].pc = "release"
  /\ attempts' = [attempts EXCEPT ![i].pc = "rejected"]
  /\ UNCHANGED <<externalVars, contextVars, cfgVars, registryVars, driverPromise, calls, cacheVars, schedVars>>

\* await driver.release() rejects inside the catch block: its error leaves the
\* inner function instead of e.
ReleaseRejects(i) ==
  /\ i \in 1..Len(attempts)
  /\ attempts[i].pc = "release"
  /\ attempts' = [attempts EXCEPT ![i].pc = "rejected", ![i].err = "release"]
  /\ UNCHANGED <<externalVars, contextVars, cfgVars, registryVars, driverPromise, calls, cacheVars, schedVars>>


(* -------------------- external driver acquisition ---------------------- *)
\* getExternalDriverFactory of an orchestrator (options.externalDriverFactory is
\* configured). An external attempt is one run of its inner async function.
NewExternalAttempt(o, pc, err) ==
  [orch |-> o, pc |-> pc, driver |-> 0, err |-> err,
   errOf |-> IF err = "" THEN 0 ELSE Len(externalAttempts) + 1,
   tested |-> 0, released |-> 0]

ExternalAttemptsOf(o) == {i \in 1..Len(externalAttempts) : externalAttempts[i].orch = o}

\* The first external attempt of the orchestrator has not settled yet (or was not
\* started).
ExternalFirstUnsettled(o) ==
  \/ ExternalAttemptsOf(o) = {}
  \/ LET first == CHOOSE i \in ExternalAttemptsOf(o) : \A j \in ExternalAttemptsOf(o) : i <= j
     IN ~Settled(externalAttempts[first])

\* if (externalPreAggregationsDriverPromise) return externalPreAggregationsDriverPromise
CachedExternalPromise(o) == externalPreAggregationsDriverPromise[o]

\* getExternalDriverFactory() on the orchestrator held by ctx. The inner function
\* runs to its first await inside the call: options.externalDriverFactory(context)
\* is invoked and either returns or throws, in which case the catch block clears the
\* variable and rethrows before the assignment stores the already rejected promise.
GetExternalDriverFactory(ctx, factoryThrows) ==
  LET o == held[ctx]
      early == ExternalFirstUnsettled(o)
      i == Len(externalAttempts) + 1
  IN /\ o # 0
     /\ Len(externalCalls) < MaxCalls
     /\ IF CachedExternalPromise(o) # 0
          THEN /\ ~factoryThrows
               /\ externalCalls' = Append(externalCalls,
                                          [ctx |-> ctx, orch |-> o,
                                           promise |-> CachedExternalPromise(o),
                                           early |-> early])
               /\ UNCHANGED <<externalAttempts, externalPreAggregationsDriverPromise>>
          ELSE /\ i <= MaxAttempts
               /\ externalAttempts' = Append(externalAttempts,
                      IF factoryThrows THEN NewExternalAttempt(o, "rejected", "factory")
                                       ELSE NewExternalAttempt(o, "factory", ""))
               /\ externalPreAggregationsDriverPromise' =
                    [externalPreAggregationsDriverPromise EXCEPT ![o] = i]
               /\ externalCalls' = Append(externalCalls,
                                          [ctx |-> ctx, orch |-> o, promise |-> i,
                                           early |-> early])
     /\ UNCHANGED <<contextVars, cfgVars, registryVars, brokerVars, cacheVars, schedVars>>

\* A catch block that leaves the variable as it is.
ExternalCatchKeep(o) == externalPreAggregationsDriverPromise

\* catch (e) { externalPreAggregationsDriverPromise = null; ... }
ExternalCatchReset(o) == [externalPreAggregationsDriverPromise EXCEPT ![o] = 0]

\* The external factory's promise rejects: the variable is cleared, there is no
\* driver to release.
ExternalFactoryRejects(i) ==
  /\ i \in 1..Len(externalAttempts)
  /\ externalAttempts[i].pc = "factory"
  /\ externalAttempts' = [externalAttempts EXCEPT ![i].pc = "rejected",
                                                  ![i].err = "factory", ![i].errOf = i]
  /\ externalPreAggregationsDriverPromise' = ExternalCatchReset(externalAttempts[i].orch)
  /\ UNCHANGED <<externalCalls, contextVars, cfgVars, registryVars, brokerVars, cacheVars,
                 schedVars>>

\* The external factory resolves with null: driver.setLogger throws a TypeError,
\* caught with driver still null.
ExternalFactoryReturnsNull(i) ==
  /\ i \in 1..Len(externalAttempts)
  /\ externalAttempts[i].pc = "factory"
  /\ externalAttempts' = [externalAttempts EXCEPT ![i].pc = "rejected",
                                                  ![i].err = "null", ![i].errOf = i]
  /\ externalPreAggregationsDriverPromise' = ExternalCatchReset(externalAttempts[i].orch)
  /\ UNCHANGED <<externalCalls, contextVars, cfgVars, registryVars, brokerVars, cacheVars,
                 schedVars>>

\* The external factory resolves with a handle. setLogger is called when the handle
\* has it; if it throws, the catch block clears the variable and starts release();
\* otherwise testConnection() is started.
ExternalFactoryReturns(i, hasSetLogger, setLoggerThrows) ==
  /\ i \in 1..Len(externalAttempts)
  /\ externalAttempts[i].pc = "factory"
  /\ setLoggerThrows => hasSetLogger
  /\ IF setLoggerThrows
       THEN /\ externalAttempts' = [externalAttempts EXCEPT
                                      ![i].driver = i,
                                      ![i].err = "setLogger", ![i].errOf = i,
                                      ![i].pc = "release", ![i].released = 1]
            /\ externalPreAggregationsDriverPromise' =
                 ExternalCatchReset(externalAttempts[i].orch)
       ELSE /\ externalAttempts' = [externalAttempts EXCEPT
                                      ![i].driver = i,
                                      ![i].pc = "test", ![i].tested = 1]
            /\ UNCHANGED externalPreAggregationsDriverPromise
  /\ UNCHANGED <<externalCalls, contextVars, cfgVars, registryVars, brokerVars, cacheVars,
                 schedVars>>

\* testConnection() of the external handle resolves: the inner function returns it.
ExternalTestConnectionResolves(i) ==
  /\ i \in 1..Len(externalAttempts)
  /\ externalAttempts[i].pc = "test"
  /\ externalAttempts' = [externalAttempts EXCEPT ![i].pc = "resolved"]
  /\ UNCHANGED <<externalPreAggregationsDriverPromise, externalCalls, contextVars, cfgVars,
                 registryVars, brokerVars, cacheVars, schedVars>>

\* testConnection() of the external handle rejects: the catch block clears the
\* variable and starts release().
ExternalTestConnectionRejects(i) ==
  /\ i \in 1..Len(externalAttempts)
  /\ externalAttempts[i].pc = "test"
  /\ externalAttempts' = [externalAttempts EXCEPT ![i].pc = "release", ![i].err = "test",
                                                  ![i].errOf = i, ![i].released = 1]
  /\ externalPreAggregationsDriverPromise' = ExternalCatchReset(externalAttempts[i].orch)
  /\ UNCHANGED <<externalCalls, contextVars, cfgVars, registryVars, brokerVars, cacheVars,
                 schedVars>>

\* await driver.release() of the external handle resolves: throw e.
ExternalReleaseResolves(i) ==
  /\ i \in 1..Len(externalAttempts)
  /\ externalAttempts[i].pc = "release"
  /\ externalAttempts' = [externalAttempts EXCEPT ![i].pc = "rejected"]
  /\ UNCHANGED <<externalPreAggregationsDriverPromise, externalCalls, contextVars, cfgVars,
                 registryVars, brokerVars, cacheVars, schedVars>>

\* await driver.release() of the external handle rejects inside the catch block: its
\* error leaves the inner function instead of e.
ExternalReleaseRejects(i) ==
  /\ i \in 1..Len(externalAttempts)
  /\ externalAttempts[i].pc = "release"
  /\ externalAttempts' = [externalAttempts EXCEPT ![i].pc = "rejected", ![i].err = "release"]
  /\ UNCHANGED <<externalPreAggregationsDriverPromise, externalCalls, contextVars, cfgVars,
                 registryVars, brokerVars, cacheVars, schedVars>>

(* ----------------------------- compiler cache -------------------------- *)
MaxTime == 2
MaxVersions == 2
MaxCompilers == 3
\* The max-age used when options.maxCompilerCacheKeepAlive is set.
KeepAlive == 1
DefaultCompilerCacheSize == 250
CompilerCacheSizes == {0, 1, 2}

AppIds == {contextToAppId(c) : c \in Contexts}

\* max: this.options.compilerCacheSize, with the option ignored.
CacheMaxIgnoringOption == DefaultCompilerCacheSize

\* max: this.options.compilerCacheSize || 250
CacheMax ==
  IF optCompilerCacheSize # 0 THEN optCompilerCacheSize ELSE DefaultCompilerCacheSize

\* maxAge taken from the capacity option instead.
CacheMaxAgeFromCacheSize == optCompilerCacheSize

\* maxAge: this.options.maxCompilerCacheKeepAlive
CacheMaxAge == optMaxAge

\* updateAgeOnGet: this.options.updateCompilerCacheKeepAlive
CacheUpdateAgeOnGet == optUpdateAgeOnGet

\* The cache is a list of entries [key, value, now], most recently used first.
\* A value is a CompilerApi object: its identity, its schemaVersion binding, and
\* (for the claims) when it was stored and when it was last returned, by the clock
\* and by the schema version current at the time.
Keys(c) == {c[i].key : i \in 1..Len(c)}
IndexOfKey(c, k) ==
  IF k \in Keys(c) THEN CHOOSE i \in 1..Len(c) : c[i].key = k ELSE 0
RemoveAt(c, i) == SubSeq(c, 1, i - 1) \o SubSeq(c, i + 1, Len(c))

\* An entry is stale when a max-age is set and the entry's age exceeds it.
IsStale(e, t) == CacheMaxAge # 0 /\ t - e.now > CacheMaxAge

\* get(key): a stale entry is deleted and missed; a hit moves the entry to the
\* front and, with updateAgeOnGet, restarts its age.
LRUGet(c, k, t) ==
  LET i == IndexOfKey(c, k)
  IN IF i = 0 THEN [cache |-> c, hit |-> FALSE]
     ELSE IF IsStale(c[i], t) THEN [cache |-> RemoveAt(c, i), hit |-> FALSE]
     ELSE [cache |-> <<IF CacheUpdateAgeOnGet THEN [c[i] EXCEPT !.now = t] ELSE c[i]>>
                     \o RemoveAt(c, i),
           hit |-> TRUE]

\* set(key, value): the entry goes to the front and the least recently used
\* entries beyond max are dropped.
LRUSet(c, k, v, t) ==
  LET i == IndexOfKey(c, k)
      e == [key |-> k, value |-> v, now |-> IF CacheMaxAge # 0 THEN t ELSE 0]
      c2 == <<e>> \o (IF i = 0 THEN c ELSE RemoveAt(c, i))
  IN IF Len(c2) > CacheMax THEN SubSeq(c2, 1, CacheMax) ELSE c2

\* prune(): every stale entry is deleted.
IsFresh(e) == ~IsStale(e, clock)
LRUPrune(c) == SelectSeq(c, IsFresh)

\* reset()
LRUReset == <<>>

\* const currentSchemaVersion = this.options.schemaVersion &&
\*   (() => this.options.schemaVersion(context)): the version function bound to the
\* context, or the unset option itself.
currentSchemaVersion(ctx) == IF optSchemaVersion THEN ctx ELSE "undefined"

\* const appId = this.contextToAppId(context), with the context itself as the key.
CompilerCacheKeyPerContext(ctx) == ctx

\* const appId = this.contextToAppId(context)
CompilerCacheKey(ctx) == contextToAppId(ctx)

\* The keys whose entry an operation removed, or whose entry is stale at time t,
\* forget the artifact last returned for them.
Forget(lr, before, after, t) ==
  [k \in DOMAIN lr |->
     IF \/ k \in Keys(before) \ Keys(after)
        \/ \E i \in 1..Len(after) : after[i].key = k /\ IsStale(after[i], t)
     THEN 0 ELSE lr[k]]

\* The keys of the cache by their last successful get or set, latest first.
Used(rec, k, after) ==
  LET In(x) == x \in Keys(after) /\ x # k
  IN (IF k \in Keys(after) THEN <<k>> ELSE <<>>) \o SelectSeq(rec, In)

\* getCompilerApi taking an entry stored under another schema version for a miss.
GetCompilerApiEvictingOnVersion(ctx, buildThrows) ==
  LET appId == CompilerCacheKey(ctx)
      found == LRUGet(compilerCache, appId, clock)
      got == IF found.hit /\ found.cache[1].value.versionStored # currentVersion
               THEN [cache |-> Tail(found.cache), hit |-> FALSE]
             ELSE found
      new == [id |-> compilers + 1, schemaVersion |-> currentSchemaVersion(ctx),
              born |-> clock, touched |-> clock,
              versionStored |-> currentVersion, versionBound |-> currentVersion]
      after == IF got.hit
                 THEN <<[got.cache[1] EXCEPT !.value.schemaVersion = currentSchemaVersion(ctx),
                                             !.value.touched = clock,
                                             !.value.versionBound = currentVersion]>>
                      \o Tail(got.cache)
               ELSE IF buildThrows THEN got.cache
               ELSE LRUSet(got.cache, appId, new, clock)
      returned == IF got.hit THEN got.cache[1].value.id
                  ELSE IF buildThrows THEN 0 ELSE compilers + 1
  IN /\ buildThrows => ~got.hit
     /\ got.hit \/ compilers < MaxCompilers
     /\ compilerCache' = after
     /\ compilers' = IF got.hit \/ buildThrows THEN compilers ELSE compilers + 1
     /\ recency' = Used(recency, IF returned # 0 THEN appId ELSE "", after)
     /\ lastReturned' =
          [Forget(lastReturned, compilerCache, after, clock)
             EXCEPT ![contextToAppId(ctx)] = IF returned # 0 THEN returned ELSE @]
     /\ UNCHANGED <<externalVars, contextVars, cfgVars, registryVars, brokerVars, clock, maxCompilerCacheKeep,
                    schedVars>>

\* getCompilerApi storing the CompilerApi under construction before its construction
\* has returned.
GetCompilerApiStoringOnFailure(ctx, buildThrows) ==
  LET appId == CompilerCacheKey(ctx)
      got == LRUGet(compilerCache, appId, clock)
      new == [id |-> compilers + 1, schemaVersion |-> currentSchemaVersion(ctx),
              born |-> clock, touched |-> clock,
              versionStored |-> currentVersion, versionBound |-> currentVersion]
      after == IF got.hit
                 THEN <<[got.cache[1] EXCEPT !.value.schemaVersion = currentSchemaVersion(ctx),
                                             !.value.touched = clock,
                                             !.value.versionBound = currentVersion]>>
                      \o Tail(got.cache)
               ELSE LRUSet(got.cache, appId, new, clock)
      returned == IF got.hit THEN got.cache[1].value.id
                  ELSE IF buildThrows THEN 0 ELSE compilers + 1
  IN /\ buildThrows => ~got.hit
     /\ got.hit \/ compilers < MaxCompilers
     /\ compilerCache' = after
     /\ compilers' = IF got.hit THEN compilers ELSE compilers + 1
     /\ recency' = Used(recency, IF returned # 0 THEN appId ELSE "", after)
     /\ lastReturned' =
          [Forget(lastReturned, compilerCache, after, clock)
             EXCEPT ![contextToAppId(ctx)] = IF returned # 0 THEN returned ELSE @]
     /\ UNCHANGED <<externalVars, contextVars, cfgVars, registryVars, brokerVars, clock, maxCompilerCacheKeep,
                    schedVars>>

\* getCompilerApi(context): the cached CompilerApi of the context's app id or, on a
\* miss, a new one, stored in the cache unless its construction throws; the
\* object's schemaVersion is bound to this context.
GetCompilerApi(ctx, buildThrows) ==
  LET appId == CompilerCacheKey(ctx)
      got == LRUGet(compilerCache, appId, clock)
      new == [id |-> compilers + 1, schemaVersion |-> currentSchemaVersion(ctx),
              born |-> clock, touched |-> clock,
              versionStored |-> currentVersion, versionBound |-> currentVersion]
      after == IF got.hit
                 THEN <<[got.cache[1] EXCEPT !.value.schemaVersion = currentSchemaVersion(ctx),
                                             !.value.touched = clock,
                                             !.value.versionBound = currentVersion]>>
                      \o Tail(got.cache)
               ELSE IF buildThrows THEN got.cache
               ELSE LRUSet(got.cache, appId, new, clock)
      returned == IF got.hit THEN got.cache[1].value.id
                  ELSE IF buildThrows THEN 0 ELSE compilers + 1
  IN /\ buildThrows => ~got.hit
     /\ got.hit \/ compilers < MaxCompilers
     /\ compilerCache' = after
     /\ compilers' = IF got.hit \/ buildThrows THEN compilers ELSE compilers + 1
     /\ recency' = Used(recency, IF returned # 0 THEN appId ELSE "", after)
     /\ lastReturned' =
          [Forget(lastReturned, compilerCache, after, clock)
             EXCEPT ![contextToAppId(ctx)] = IF returned # 0 THEN returned ELSE @]
     /\ UNCHANGED <<externalVars, contextVars, cfgVars, registryVars, brokerVars, clock, maxCompilerCacheKeep,
                    schedVars>>

\* The schema of the application changes: options.schemaVersion(context) returns a
\* new value from now on.
SchemaVersionChanges ==
  /\ currentVersion < MaxVersions
  /\ currentVersion' = currentVersion + 1
  /\ UNCHANGED <<fallbackVars, optSchemaVersion, optOrchestratorIdFn, optCompilerCacheSize, optMaxAge,
                 optUpdateAgeOnGet, optDbType, envDbType, optScheduledRefreshTimer,
                 registryVars, brokerVars, cacheVars, schedVars, contextVars,
                 externalVars>>

\* Time passes.
Tick ==
  /\ clock < MaxTime
  /\ clock' = clock + 1
  /\ lastReturned' = Forget(lastReturned, compilerCache, compilerCache, clock + 1)
  /\ UNCHANGED <<externalVars, contextVars, cfgVars, registryVars, brokerVars, compilerCache, compilers,
                 maxCompilerCacheKeep, recency, schedVars>>

\* A prune that drops the orchestrators from the registry with the entries.
PruneTimerFiresDroppingOrchestrators ==
  /\ maxCompilerCacheKeep
  /\ compilerCache' = LRUPrune(compilerCache)
  /\ lastReturned' = Forget(lastReturned, compilerCache, compilerCache', clock)
  /\ recency' = Used(recency, "", compilerCache')
  /\ storage' = [id \in DOMAIN storage |->
                   IF compilerCache' # compilerCache THEN 0 ELSE storage[id]]
  /\ UNCHANGED <<externalVars, contextVars, cfgVars, orchestrators, clears, held, seenOrch,
                 brokerVars, clock, compilers, maxCompilerCacheKeep, schedVars>>

\* The prune timer fires: setInterval(() => this.compilerCache.prune(), maxAge).
PruneTimerFires ==
  /\ maxCompilerCacheKeep
  /\ compilerCache' = LRUPrune(compilerCache)
  /\ lastReturned' = Forget(lastReturned, compilerCache, compilerCache', clock)
  /\ recency' = Used(recency, "", compilerCache')
  /\ UNCHANGED <<externalVars, contextVars, cfgVars, registryVars, brokerVars, clock, compilers,
                 maxCompilerCacheKeep, schedVars>>

(* ------------------------- scheduled refresh --------------------------- *)
MaxRuns == 2
MaxDueTicks == 2
MaxOps == 2

\* options.scheduledRefreshTimer: a boolean, or a number of seconds given here in
\* ten-millionths: 0, 0.5 and 2.
TimerSettings ==
  {[kind |-> "boolean", v |-> 0], [kind |-> "boolean", v |-> 1],
   [kind |-> "number", v |-> 0], [kind |-> "number", v |-> 5000000],
   [kind |-> "number", v |-> 20000000]}

\* The same with the numbers 0.0000005, 0.000001, 0.9999999 and 1.5.
PeriodSettings ==
  TimerSettings \cup
  {[kind |-> "number", v |-> 5], [kind |-> "number", v |-> 10],
   [kind |-> "number", v |-> 9999999], [kind |-> "number", v |-> 15000000]}

\* The integer part of a number of ten-millionths.
IntegerPart(v) == v \div 10000000

\* parseInt(n, 10) of a positive number: the digits that lead String(n). String(n)
\* is in decimal notation from 0.000001 on, where they are the integer part, and
\* in exponent notation ("5e-7") below, where they are the first digit.
parseInt(v) == IF v < 10 THEN v ELSE IntegerPart(v)

Truthy(setting) == setting.v # 0

\* detectScheduledRefreshTimer: parseInt(n, 10) * 1000 for a non-zero number, 30000
\* for another truthy value, false (-1 here) otherwise.
detectScheduledRefreshTimer(setting) ==
  IF Truthy(setting) /\ setting.kind = "number" THEN parseInt(setting.v) * 1000
  ELSE IF Truthy(setting) THEN 30000
  ELSE -1

\* isReadyForQueryProcessing
isReadyForQueryProcessing(opt, env) == opt \/ env

\* createCancelableInterval(fn, {interval, ...}): the interval starts running.
\* runs[i] is the i-th invocation of fn: how many ticks fell due while it ran, and
\* whether it has completed. execution is the invocation in flight (0: none).
createCancelableInterval(period) ==
  [period |-> period, state |-> "running", execution |-> 0, intervalId |-> 0,
   overlap |-> FALSE, runs |-> <<>>]

\* startScheduledRefreshTimer() without the test of the field: an interval is
\* created although one exists.
startScheduledRefreshTimerNoFieldTest(opt, env, ivs, field) ==
  LET period == detectScheduledRefreshTimer(optScheduledRefreshTimer)
  IN IF ~isReadyForQueryProcessing(opt, env)
       THEN [intervals |-> ivs, field |-> field, result |-> FALSE]
     ELSE IF period # -1 /\ period # 0 /\ Len(ivs) < MaxOps
       THEN [intervals |-> Append(ivs, createCancelableInterval(period)),
             field |-> Len(ivs) + 1, result |-> TRUE]
     ELSE [intervals |-> ivs, field |-> field, result |-> FALSE]

\* startScheduledRefreshTimer() without the test of isReadyForQueryProcessing.
startScheduledRefreshTimerNoReadyTest(opt, env, ivs, field) ==
  LET period == detectScheduledRefreshTimer(optScheduledRefreshTimer)
  IN IF field # 0
       THEN [intervals |-> ivs, field |-> field, result |-> TRUE]
     ELSE IF period # -1 /\ period # 0
       THEN [intervals |-> Append(ivs, createCancelableInterval(period)),
             field |-> Len(ivs) + 1, result |-> TRUE]
     ELSE [intervals |-> ivs, field |-> field, result |-> FALSE]

\* startScheduledRefreshTimer(): [intervals, field, result] after the call.
startScheduledRefreshTimer(opt, env, ivs, field) ==
  LET period == detectScheduledRefreshTimer(optScheduledRefreshTimer)
  IN IF ~isReadyForQueryProcessing(opt, env)
       THEN [intervals |-> ivs, field |-> field, result |-> FALSE]
     ELSE IF field # 0
       THEN [intervals |-> ivs, field |-> field, result |-> TRUE]
     ELSE IF period # -1 /\ period # 0
       THEN [intervals |-> Append(ivs, createCancelableInterval(period)),
             field |-> Len(ivs) + 1, result |-> TRUE]
     ELSE [intervals |-> ivs, field |-> field, result |-> FALSE]

\* A direct call of the public startScheduledRefreshTimer().
StartScheduledRefreshTimer ==
  LET r == startScheduledRefreshTimer(optDbType, envDbType, intervals,
                                      scheduledRefreshTimerInterval)
  IN /\ intervals' = r.intervals
     /\ scheduledRefreshTimerInterval' = r.field
     /\ UNCHANGED <<externalVars, contextVars, cfgVars, registryVars, brokerVars, cacheVars, logged, ops>>

\* The environment gets a CUBEJS_DB_TYPE (a development instance is configured).
EnvDbTypeSet ==
  /\ ~envDbType
  /\ envDbType' = TRUE
  /\ UNCHANGED <<fallbackVars, versionVars, externalVars, contextVars, optOrchestratorIdFn, optCompilerCacheSize, optMaxAge, optUpdateAgeOnGet,
                 optDbType, optScheduledRefreshTimer, registryVars, brokerVars,
                 cacheVars, schedVars>>

\* onDuplicatedExecution with the event of onDuplicatedStateResolved.
OnDuplicatedExecutionWrongEvent(log, intervalId) ==
  Append(log, <<"Refresh Scheduler Long Execution", intervalId>>)

\* onDuplicatedExecution: (intervalId) => this.logger('Refresh Scheduler Interval Error', ...)
OnDuplicatedExecution(log, intervalId) ==
  Append(log, <<"Refresh Scheduler Interval Error", intervalId>>)

\* onDuplicatedStateResolved: (intervalId, elapsed) => this.logger('Refresh Scheduler Long Execution', ...)
OnDuplicatedStateResolved(log, intervalId) ==
  Append(log, <<"Refresh Scheduler Long Execution", intervalId>>)

\* A tick that starts an invocation although one is still in flight.
TickStartsRunAlways(iv) == TRUE

\* A tick starts an invocation only when none is in flight.
TickStartsRun(iv) == iv.execution = 0

\* A tick of interval n falls due. With no invocation in flight, the next one is
\* started: () => this.handleScheduledRefreshInterval({}). Otherwise no invocation
\* is started; the first such tick of an invocation reports the overlap.
IntervalTick(n) ==
  /\ n \in 1..Len(intervals)
  /\ intervals[n].state = "running"
  /\ LET iv == intervals[n]
     IN IF TickStartsRun(iv)
          THEN /\ iv.intervalId < MaxRuns
               /\ intervals' = [intervals EXCEPT
                                  ![n].intervalId = iv.intervalId + 1,
                                  ![n].execution = iv.intervalId + 1,
                                  ![n].runs = Append(iv.runs, [due |-> 0, done |-> FALSE])]
               /\ UNCHANGED logged
          ELSE /\ iv.runs[iv.execution].due < MaxDueTicks
               /\ intervals' = [intervals EXCEPT
                                  ![n].overlap = TRUE,
                                  ![n].runs[iv.execution].due = @ + 1]
               /\ logged' = IF iv.overlap THEN logged
                            ELSE OnDuplicatedExecution(logged, iv.intervalId)
  /\ UNCHANGED <<externalVars, contextVars, cfgVars, registryVars, brokerVars, cacheVars,
                 scheduledRefreshTimerInterval, ops>>

\* The invocation i of interval n completes (or fails): an overlap episode is
\* closed with its report, and a graceful cancel waiting for it ends.
RunSettles(n, i) ==
  /\ n \in 1..Len(intervals)
  /\ i \in 1..Len(intervals[n].runs)
  /\ ~intervals[n].runs[i].done
  /\ LET iv == intervals[n]
         last == iv.execution = i
     IN /\ intervals' = [intervals EXCEPT
                           ![n].runs[i].done = TRUE,
                           ![n].execution = IF last THEN 0 ELSE @,
                           ![n].overlap = IF last THEN FALSE ELSE @,
                           ![n].state = IF last /\ @ = "cancelling" THEN "cancelled" ELSE @]
        /\ logged' = IF last /\ iv.overlap
                       THEN OnDuplicatedStateResolved(logged, iv.intervalId)
                       ELSE logged
  /\ UNCHANGED <<externalVars, contextVars, cfgVars, registryVars, brokerVars, cacheVars,
                 scheduledRefreshTimerInterval, ops>>

\* cancel(graceful) on an interval: no further invocation is scheduled.
Cancel(iv, graceful) ==
  [iv EXCEPT !.state = IF @ = "cancelled" THEN "cancelled"
                       ELSE IF graceful /\ iv.execution # 0 THEN "cancelling"
                       ELSE "cancelled"]

(* ------------------------------ lifecycle ------------------------------ *)
\* A lifecycle call: its name, where it is, the invocation that was in flight when
\* it called cancel (0: none), and whether that invocation was still running when
\* the call returned.
NewOp(name, pc, graceful, waitFor, had) ==
  [name |-> name, pc |-> pc, graceful |-> graceful, waitFor |-> waitFor,
   hadTenants |-> had, leftRunning |-> FALSE]

Registered == {id \in DOMAIN storage : storage[id] # 0}

\* OrchestratorStorage.releaseConnections has completed: the registry is empty.
StorageReleased == [id \in DOMAIN storage |-> 0]

\* OrchestratorStorage.releaseConnections: release() is invoked on every
\* registered orchestrator, whether or not one of them rejects.
StorageReleaseConnections(orchs, st) ==
  [o \in 1..Len(orchs) |->
     IF \E id \in DOMAIN st : st[id] = o
       THEN [orchs[o] EXCEPT !.released = @ + 1]
       ELSE orchs[o]]

\* beforeShutdown passing no graceful flag.
BeforeShutdownCancelNotGraceful == FALSE

\* this.scheduledRefreshTimerInterval.cancel(true)
BeforeShutdownCancelGraceful == TRUE

\* this.scheduledRefreshTimerInterval.cancel()
ReleaseConnectionsCancelGraceful == FALSE

\* The part of releaseConnections and beforeShutdown after the registry release:
\* the prune timer is cleared and the interval, if any, is cancelled.
CancelTimers(name, graceful, had) ==
  LET n == scheduledRefreshTimerInterval
  IN /\ maxCompilerCacheKeep' = FALSE
     /\ IF n # 0
          THEN /\ intervals' = [intervals EXCEPT ![n] = Cancel(@, graceful)]
               /\ ops' = Append(ops, NewOp(name, "cancel", graceful,
                                           intervals[n].execution, had))
          ELSE /\ UNCHANGED intervals
               /\ ops' = Append(ops, NewOp(name, "cancel", graceful, 0, had))

\* beforeShutdown(): up to the await of cancel(true).
BeforeShutdownCall ==
  /\ Len(ops) < MaxOps
  /\ CancelTimers("beforeShutdown", BeforeShutdownCancelGraceful, FALSE)
  /\ UNCHANGED <<externalVars, contextVars, cfgVars, registryVars, brokerVars, compilerCache, clock, compilers,
                 lastReturned, recency, scheduledRefreshTimerInterval, logged>>

\* releaseConnections(): up to the await of the registry's releaseConnections().
ReleaseConnectionsCall ==
  /\ Len(ops) < MaxOps
  /\ ops' = Append(ops, NewOp("releaseConnections", "release", FALSE, 0, Registered # {}))
  /\ UNCHANGED <<externalVars, contextVars, cfgVars, registryVars, brokerVars, cacheVars, intervals,
                 scheduledRefreshTimerInterval, logged>>

\* releaseConnections clearing the prune timer and cancelling the interval whether
\* or not the registry release resolved.
ReleaseConnectionsResumeAlwaysCancels(k, ok) ==
  /\ k \in 1..Len(ops)
  /\ ops[k].name = "releaseConnections" /\ ops[k].pc = "release"
  /\ ~ok => ops[k].hadTenants
  /\ storage' = StorageReleased
  /\ clears' = clears + 1
  /\ seenOrch' = [c \in DOMAIN seenOrch |-> 0]
  /\ LET n == scheduledRefreshTimerInterval
     IN IF ok
          THEN /\ maxCompilerCacheKeep' = FALSE
               /\ intervals' = IF n # 0
                                 THEN [intervals EXCEPT
                                         ![n] = Cancel(@, ReleaseConnectionsCancelGraceful)]
                                 ELSE intervals
               /\ ops' = [ops EXCEPT ![k].pc = "cancel",
                                     ![k].graceful = ReleaseConnectionsCancelGraceful,
                                     ![k].waitFor = IF n # 0 THEN intervals[n].execution ELSE 0]
          ELSE /\ maxCompilerCacheKeep' = FALSE
               /\ intervals' = IF n # 0
                                 THEN [intervals EXCEPT
                                         ![n] = Cancel(@, ReleaseConnectionsCancelGraceful)]
                                 ELSE intervals
               /\ ops' = [ops EXCEPT ![k].pc = "failed"]
  /\ orchestrators' = StorageReleaseConnections(orchestrators, storage)
  /\ UNCHANGED <<externalVars, contextVars, cfgVars, held, brokerVars, compilerCache, clock, compilers,
                 lastReturned, recency, scheduledRefreshTimerInterval, logged>>

\* The registry release settles, leaving the registry empty. If it resolved,
\* releaseConnections goes on to clear the prune timer and cancel the interval;
\* if it rejected (a registered orchestrator failed to release), it rejects.
ReleaseConnectionsResume(k, ok) ==
  /\ k \in 1..Len(ops)
  /\ ops[k].name = "releaseConnections" /\ ops[k].pc = "release"
  /\ ~ok => ops[k].hadTenants
  /\ storage' = StorageReleased
  /\ clears' = clears + 1
  /\ seenOrch' = [c \in DOMAIN seenOrch |-> 0]
  /\ LET n == scheduledRefreshTimerInterval
     IN IF ok
          THEN /\ maxCompilerCacheKeep' = FALSE
               /\ intervals' = IF n # 0
                                 THEN [intervals EXCEPT
                                         ![n] = Cancel(@, ReleaseConnectionsCancelGraceful)]
                                 ELSE intervals
               /\ ops' = [ops EXCEPT ![k].pc = "cancel",
                                     ![k].graceful = ReleaseConnectionsCancelGraceful,
                                     ![k].waitFor = IF n # 0 THEN intervals[n].execution ELSE 0]
          ELSE /\ ops' = [ops EXCEPT ![k].pc = "failed"]
               /\ UNCHANGED <<maxCompilerCacheKeep, intervals>>
  /\ orchestrators' = StorageReleaseConnections(orchestrators, storage)
  /\ UNCHANGED <<externalVars, contextVars, cfgVars, held, brokerVars, compilerCache, clock, compilers,
                 lastReturned, recency, scheduledRefreshTimerInterval, logged>>

\* The invocation a cancel found in flight, if any, has completed.
RunDone(n, i) == IF i = 0 \/ n = 0 THEN TRUE ELSE intervals[n].runs[i].done

\* The awaited cancel settles and the call returns: a graceful cancel only after
\* the invocation that was in flight has completed.
OpReturn(k) ==
  /\ k \in 1..Len(ops)
  /\ ops[k].pc = "cancel"
  /\ ops[k].graceful => RunDone(scheduledRefreshTimerInterval, ops[k].waitFor)
  /\ ops' = [ops EXCEPT ![k].pc = "done",
                        ![k].leftRunning =
                           ~RunDone(scheduledRefreshTimerInterval, ops[k].waitFor)]
  /\ UNCHANGED <<externalVars, contextVars, cfgVars, registryVars, brokerVars, cacheVars, intervals,
                 scheduledRefreshTimerInterval, logged>>

\* resetInstanceState(): up to the await of the registry's releaseConnections().
ResetInstanceStateCall ==
  /\ Len(ops) < MaxOps
  /\ ops' = Append(ops, NewOp("resetInstanceState", "release", FALSE, 0, Registered # {}))
  /\ UNCHANGED <<externalVars, contextVars, cfgVars, registryVars, brokerVars, cacheVars, intervals,
                 scheduledRefreshTimerInterval, logged>>

\* The registry release settles. If it resolved, resetInstanceState clears the
\* registry, resets the compiler cache, reloads the environment and starts the
\* refresh timer; if it rejected, resetInstanceState rejects there.
ResetInstanceStateResume(k, ok) ==
  /\ k \in 1..Len(ops)
  /\ ops[k].name = "resetInstanceState" /\ ops[k].pc = "release"
  /\ ~ok => ops[k].hadTenants
  /\ storage' = StorageReleased
  /\ clears' = clears + 1
  /\ seenOrch' = [c \in DOMAIN seenOrch |-> 0]
  /\ IF ok
       THEN LET r == startScheduledRefreshTimer(optDbType \/ envDbType, envDbType,
                                                intervals, scheduledRefreshTimerInterval)
            IN /\ compilerCache' = LRUReset
               /\ lastReturned' = Forget(lastReturned, compilerCache, LRUReset, clock)
               /\ recency' = <<>>
               /\ optDbType' = (optDbType \/ envDbType)
               /\ intervals' = r.intervals
               /\ scheduledRefreshTimerInterval' = r.field
               /\ ops' = [ops EXCEPT ![k].pc = "done"]
       ELSE /\ ops' = [ops EXCEPT ![k].pc = "failed"]
            /\ UNCHANGED <<compilerCache, lastReturned, recency, optDbType, intervals,
                           scheduledRefreshTimerInterval>>
  /\ orchestrators' = StorageReleaseConnections(orchestrators, storage)
  /\ UNCHANGED <<fallbackVars, versionVars, externalVars, contextVars, optOrchestratorIdFn, optCompilerCacheSize, optMaxAge, optUpdateAgeOnGet,
                 envDbType, optScheduledRefreshTimer, held, brokerVars,
                 clock, compilers, maxCompilerCacheKeep, logged>>

\* shutdown(): up to the settling of the registry's releaseConnections(), whose
\* promise it returns.
ShutdownCall ==
  /\ Len(ops) < MaxOps
  /\ ops' = Append(ops, NewOp("shutdown", "release", FALSE, 0, Registered # {}))
  /\ UNCHANGED <<externalVars, contextVars, cfgVars, registryVars, brokerVars, cacheVars, intervals,
                 scheduledRefreshTimerInterval, logged>>

\* shutdown() settling without a release of the registry.
ShutdownResumeNoRelease(k, ok) ==
  /\ k \in 1..Len(ops)
  /\ ops[k].name = "shutdown" /\ ops[k].pc = "release"
  /\ ok
  /\ ops' = [ops EXCEPT ![k].pc = "done"]
  /\ UNCHANGED <<externalVars, contextVars, cfgVars, registryVars, brokerVars, cacheVars, intervals,
                 scheduledRefreshTimerInterval, logged>>

\* The registry release settles, leaving the registry empty, and shutdown settles
\* the same way.
ShutdownResume(k, ok) ==
  /\ k \in 1..Len(ops)
  /\ ops[k].name = "shutdown" /\ ops[k].pc = "release"
  /\ ~ok => ops[k].hadTenants
  /\ orchestrators' = StorageReleaseConnections(orchestrators, storage)
  /\ storage' = StorageReleased
  /\ clears' = clears + 1
  /\ seenOrch' = [c \in DOMAIN seenOrch |-> 0]
  /\ ops' = [ops EXCEPT ![k].pc = IF ok THEN "done" ELSE "failed"]
  /\ UNCHANGED <<externalVars, contextVars, cfgVars, held, brokerVars, cacheVars, intervals,
                 scheduledRefreshTimerInterval, logged>>

(* ------------------------- background contexts ------------------------ *)
MaxMigrations == 2

\* The values of authInfo and securityContext: absent, the empty string, or one of
\* two security payloads.
AuthValues == {"undefined", "", "x", "y"}

\* A value that passes if (v): neither absent nor the empty string.
IsSet(v) == v \notin {"undefined", ""}

\* The background contexts: authInfo, securityContext and one more field.
UserBackgroundContexts ==
  [authInfo : AuthValues, securityContext : AuthValues, tenant : {"t1", "t2"}]

\* The null context and the null result.
NullContext == [null |-> TRUE]

\* migrateBackgroundContext returning its argument.
migrateBackgroundContextUnchanged(ctx) == ctx

\* migrateBackgroundContext copying no field when both are set.
migrateBackgroundContextKeepingBoth(ctx) ==
  IF ctx = NullContext THEN NullContext
  ELSE IF IsSet(ctx.securityContext) /\ ~IsSet(ctx.authInfo)
    THEN [ctx EXCEPT !.authInfo = ctx.securityContext]
  ELSE IF IsSet(ctx.authInfo) /\ IsSet(ctx.securityContext)
    THEN ctx
  ELSE IF IsSet(ctx.authInfo)
    THEN [ctx EXCEPT !.securityContext = ctx.authInfo]
  ELSE NullContext

\* The value migrateBackgroundContext(ctx) returns.
migrateBackgroundContext(ctx) ==
  IF ctx = NullContext THEN NullContext
  ELSE IF IsSet(ctx.securityContext) /\ ~IsSet(ctx.authInfo)
    THEN [ctx EXCEPT !.authInfo = ctx.securityContext]
  ELSE IF IsSet(ctx.authInfo)
    THEN [ctx EXCEPT !.securityContext = ctx.authInfo]
  ELSE NullContext

\* The branch of migrateBackgroundContext that holds the deprecation warning.
InAuthInfoBranch(ctx) ==
  /\ ctx # NullContext
  /\ ~(IsSet(ctx.securityContext) /\ ~IsSet(ctx.authInfo))
  /\ IsSet(ctx.authInfo)

\* A call of migrateBackgroundContext(ctx), as runScheduledRefresh makes it: in the
\* authInfo branch the warning is logged if warningBackgroundContextShow is true,
\* and the field is then set to false.
MigrateBackgroundContext(ctx) ==
  /\ Len(migrations) < MaxMigrations
  /\ migrations' = Append(migrations, [ctx |-> ctx, result |-> migrateBackgroundContext(ctx)])
  /\ IF InAuthInfoBranch(ctx) /\ warningBackgroundContextShow
       THEN /\ logged' = Append(logged, <<"auth_info_deprecation", 0>>)
            /\ warningBackgroundContextShow' = FALSE
       ELSE UNCHANGED <<logged, warningBackgroundContextShow>>
  /\ UNCHANGED <<refreshRuns, externalVars, cfgVars, registryVars, brokerVars, cacheVars,
                 intervals, scheduledRefreshTimerInterval, ops>>

(* --------------------------- refresh fan-out --------------------------- *)
\* Background contexts as scheduledRefreshContexts returns them.
AuthInfoContext == [authInfo |-> "x", securityContext |-> "undefined", tenant |-> "t1"]
SecurityContext == [authInfo |-> "undefined", securityContext |-> "y", tenant |-> "t2"]

\* The lists scheduledRefreshContexts resolves with; <<NullContext>> is the default,
\* async () => [null].
RefreshContextLists ==
  {<<>>, <<NullContext>>, <<AuthInfoContext>>, <<NullContext, AuthInfoContext>>,
   <<AuthInfoContext, SecurityContext>>, <<SecurityContext, SecurityContext>>}

\* The frame of the steps of a scheduler run.
RunFrame ==
  UNCHANGED <<migrations, externalVars, cfgVars, registryVars, brokerVars, cacheVars,
              intervals, scheduledRefreshTimerInterval, ops>>

\* handleScheduledRefreshInterval(options) up to
\* await this.options.scheduledRefreshContexts().
HandleScheduledRefreshInterval ==
  /\ Len(refreshRuns) < MaxRuns
  /\ refreshRuns' = Append(refreshRuns,
                           [pc |-> "contexts", contexts |-> <<>>, refreshes |-> <<>>])
  /\ UNCHANGED <<logged, warningBackgroundContextShow>>
  /\ RunFrame

\* A fan-out that starts the refresh of the first context only.
StartedRefreshesFirstOnly(contexts) ==
  [i \in 1..(IF Len(contexts) > 0 THEN 1 ELSE 0) |->
     [context |-> migrateBackgroundContext(contexts[i]), state |-> "pending"]]

\* The refreshes contexts.map starts: one runScheduledRefresh for each element, on
\* migrateBackgroundContext(context).
StartedRefreshes(contexts) ==
  [i \in 1..Len(contexts) |->
     [context |-> migrateBackgroundContext(contexts[i]), state |-> "pending"]]

\* scheduledRefreshContexts() resolves with a list: an empty list is logged, then
\* every refresh is started inside contexts.map, and Promise.all of the started
\* refreshes is returned (resolved at once for none).
ScheduledRefreshContextsResolves(r, contexts) ==
  /\ r \in 1..Len(refreshRuns)
  /\ refreshRuns[r].pc = "contexts"
  /\ refreshRuns' = [refreshRuns EXCEPT ![r] =
       [pc |-> IF Len(contexts) < 1 THEN "resolved" ELSE "all",
        contexts |-> contexts,
        refreshes |-> StartedRefreshes(contexts)]]
  /\ IF Len(contexts) < 1
       THEN /\ logged' = Append(logged, <<"Refresh Scheduler Error", 0>>)
            /\ UNCHANGED warningBackgroundContextShow
     ELSE IF /\ warningBackgroundContextShow
             /\ \E i \in 1..Len(contexts) : InAuthInfoBranch(contexts[i])
       THEN /\ logged' = Append(logged, <<"auth_info_deprecation", 0>>)
            /\ warningBackgroundContextShow' = FALSE
     ELSE UNCHANGED <<logged, warningBackgroundContextShow>>
  /\ RunFrame

\* scheduledRefreshContexts() rejects: the await throws out of the handler.
ScheduledRefreshContextsRejects(r) ==
  /\ r \in 1..Len(refreshRuns)
  /\ refreshRuns[r].pc = "contexts"
  /\ refreshRuns' = [refreshRuns EXCEPT ![r].pc = "rejected"]
  /\ UNCHANGED <<logged, warningBackgroundContextShow>>
  /\ RunFrame

\* Promise.all over the refreshes of a run: resolved when each has resolved.
AllResolved(refreshes) == \A i \in 1..Len(refreshes) : refreshes[i].state = "resolved"

\* One runScheduledRefresh resolves; Promise.all resolves with the last of them.
RefreshResolves(r, i) ==
  /\ r \in 1..Len(refreshRuns)
  /\ i \in 1..Len(refreshRuns[r].refreshes)
  /\ refreshRuns[r].refreshes[i].state = "pending"
  /\ LET after == [refreshRuns[r].refreshes EXCEPT ![i].state = "resolved"]
     IN refreshRuns' = [refreshRuns EXCEPT ![r] =
          [@ EXCEPT !.refreshes = after,
                    !.pc = IF @ = "all" /\ AllResolved(after) THEN "resolved" ELSE @]]
  /\ UNCHANGED <<logged, warningBackgroundContextShow>>
  /\ RunFrame

\* One runScheduledRefresh rejects; Promise.all rejects with the first of them.
RefreshRejects(r, i) ==
  /\ r \in 1..Len(refreshRuns)
  /\ i \in 1..Len(refreshRuns[r].refreshes)
  /\ refreshRuns[r].refreshes[i].state = "pending"
  /\ refreshRuns' = [refreshRuns EXCEPT ![r] =
       [@ EXCEPT !.refreshes[i].state = "rejected",
                 !.pc = IF @ = "all" THEN "rejected" ELSE @]]
  /\ UNCHANGED <<logged, warningBackgroundContextShow>>
  /\ RunFrame

(* ----------------------- coordinator getDriver ------------------------- *)
MaxDriverCalls == 3

\* A call of getDriver(ctx) on the coordinator: seen is this.driver as the test of
\* the call found it, invoked and tested tell whether driverFactory and
\* testConnection were called, handle is the driver the factory returned (named by
\* the call, 0: none), released counts its release() calls, returned is the result.
NewDriverCall(pc, seen, invoked, returned) ==
  [pc |-> pc, seen |-> seen, invoked |-> invoked, tested |-> FALSE, handle |-> 0,
   released |-> 0, returned |-> returned]

\* The frame of the steps of getDriver(ctx).
DriverFrame ==
  UNCHANGED <<optOrchestratorIdFn, optCompilerCacheSize, optMaxAge, optUpdateAgeOnGet,
              optDbType, envDbType, optScheduledRefreshTimer, versionVars,
              registryVars, brokerVars, cacheVars, schedVars, contextVars, externalVars>>

\* getDriver(ctx) up to its first await: with a driver stored it returns that
\* driver; otherwise it calls options.driverFactory(ctx), which may throw.
CoordinatorGetDriver(factoryThrows) ==
  /\ Len(driverCalls) < MaxDriverCalls
  /\ factoryThrows => driver = 0
  /\ driverCalls' = Append(driverCalls,
       IF driver # 0 THEN NewDriverCall("done", driver, FALSE, driver)
       ELSE IF factoryThrows THEN NewDriverCall("failed", 0, TRUE, 0)
       ELSE NewDriverCall("factory", 0, TRUE, 0))
  /\ UNCHANGED driver
  /\ DriverFrame

\* await this.options.driverFactory(ctx) resolves with a handle:
\* driver.testConnection() is called.
DriverFactoryResolves(c) ==
  /\ c \in 1..Len(driverCalls)
  /\ driverCalls[c].pc = "factory"
  /\ driverCalls' = [driverCalls EXCEPT ![c].pc = "test", ![c].handle = c,
                                        ![c].tested = TRUE]
  /\ UNCHANGED driver
  /\ DriverFrame

\* The factory rejects, or resolves with null so that driver.testConnection throws.
DriverFactoryFails(c) ==
  /\ c \in 1..Len(driverCalls)
  /\ driverCalls[c].pc = "factory"
  /\ driverCalls' = [driverCalls EXCEPT ![c].pc = "failed"]
  /\ UNCHANGED driver
  /\ DriverFrame

\* testConnection() resolves, and a driver stored in the meantime is kept.
DriverTestConnectionResolvesKeepingFirst(c) ==
  /\ c \in 1..Len(driverCalls)
  /\ driverCalls[c].pc = "test"
  /\ driver' = IF driver # 0 THEN driver ELSE driverCalls[c].handle
  /\ driverCalls' = [driverCalls EXCEPT ![c].pc = "done", ![c].returned = driver']
  /\ DriverFrame

\* await driver.testConnection() resolves: this.driver = driver; return this.driver.
DriverTestConnectionResolves(c) ==
  /\ c \in 1..Len(driverCalls)
  /\ driverCalls[c].pc = "test"
  /\ driver' = driverCalls[c].handle
  /\ driverCalls' = [driverCalls EXCEPT ![c].pc = "done", ![c].returned = driver']
  /\ DriverFrame

\* await driver.testConnection() rejects: the call rejects with the handle as it is.
DriverTestConnectionRejects(c) ==
  /\ c \in 1..Len(driverCalls)
  /\ driverCalls[c].pc = "test"
  /\ driverCalls' = [driverCalls EXCEPT ![c].pc = "failed"]
  /\ UNCHANGED driver
  /\ DriverFrame

(* ------------------------- claims: acquisition ------------------------- *)
CallsOn(o, ds) == {k \in 1..Len(calls) : calls[k].orch = o /\ calls[k].ds = ds}
EarlyCallsOn(o, ds) == {k \in CallsOn(o, ds) : calls[k].early}

\* C1 (coalescing): the getDriver calls issued on a slot before the slot's first
\* attempt has settled all share one attempt: one factory invocation, at most one
\* testConnection call, and one outcome for all of them.
C1_Coalescing ==
  \A o \in 1..Len(orchestrators), ds \in DataSources :
    /\ \A k1, k2 \in EarlyCallsOn(o, ds) :
         /\ calls[k1].promise = calls[k2].promise
         /\ Outcome(calls[k1].promise) = Outcome(calls[k2].promise)
    /\ Cardinality({calls[k].promise : k \in EarlyCallsOn(o, ds)}) <= 1
    /\ \A k \in EarlyCallsOn(o, ds) : attempts[calls[k].promise].tested <= 1

\* C2 (slot reset): a slot never holds the promise of an attempt that has failed,
\* so no later getDriver call returns that rejected promise.
C2_SlotReset ==
  \A i \in 1..Len(attempts) :
    attempts[i].pc = "rejected" => driverPromise[attempts[i].orch][attempts[i].ds] # i

\* C3 (best-effort release): a failed attempt calls release() exactly once when the
\* factory had produced a handle and never otherwise, and it rejects with the
\* acquisition error, never with the error of release().
C3_BestEffortRelease ==
  \A i \in 1..Len(attempts) :
    LET a == attempts[i]
    IN /\ a.released <= 1
       /\ (a.driver = 0) => (a.released = 0)
       /\ (a.err # "" /\ a.driver # 0) => (a.released = 1)
       /\ (a.pc = "rejected") => (a.err \in {"factory", "null", "setLogger", "test"})

\* C4 (end-to-end sharing): contexts with the same orchestrator id hold the same
\* orchestrator; all their getDriver('default') calls that resolved hold the same
\* handle; and when the calls were served by the slot's first attempt, the factory
\* was invoked exactly once for the slot.
C4_EndToEndSharing ==
  \A c1, c2 \in BrokerContexts :
    (/\ contextToOrchestratorId(c1) = contextToOrchestratorId(c2)
     /\ held[c1] # 0 /\ held[c2] # 0) =>
      /\ held[c1] = held[c2]
      /\ \A k1, k2 \in CallsOn(held[c1], "default") :
           (/\ Outcome(calls[k1].promise)[1] = "driver"
            /\ Outcome(calls[k2].promise)[1] = "driver") =>
             Outcome(calls[k1].promise) = Outcome(calls[k2].promise)
      /\ \A k \in CallsOn(held[c1], "default") :
           (/\ Outcome(calls[k].promise)[1] = "driver"
            /\ \A j \in AttemptsOf(held[c1], "default") : calls[k].promise <= j) =>
             Cardinality(AttemptsOf(held[c1], "default")) = 1

\* Two contexts of one orchestrator id have both called getDriver for the default
\* data source and both hold the same resolved handle.
C4_Witness ==
  \E k1, k2 \in 1..Len(calls) :
    /\ calls[k1].ctx = "acme1" /\ calls[k2].ctx = "acme2"
    /\ contextToOrchestratorId("acme1") = contextToOrchestratorId("acme2")
    /\ calls[k1].ds = "default" /\ calls[k2].ds = "default"
    /\ calls[k2].early
    /\ Outcome(calls[k1].promise)[1] = "driver"
    /\ Outcome(calls[k1].promise) = Outcome(calls[k2].promise)

\* The attempt i fails, or goes on failing, in this step.
Failing(i) ==
  /\ attempts'[i].err # ""
  /\ i <= Len(attempts) => attempts'[i] # attempts[i]

SlotState(dp, atts, o, ds) ==
  IF dp[o][ds] = 0 THEN "empty"
  ELSE IF atts[dp[o][ds]].pc = "resolved" THEN "resolved"
  ELSE IF atts[dp[o][ds]].pc = "rejected" THEN "rejected"
  ELSE "pending"

Unsettled(o, ds) == {i \in AttemptsOf(o, ds) : ~Settled(attempts[i])}

\* C18 (slot state machine): every slot is empty, pending or resolved, with at most
\* one attempt of the slot unsettled, and a step takes a slot from empty to pending,
\* from pending to resolved or from pending to empty, or leaves it as it is.
C18_SlotStateMachine ==
  /\ [](\A o \in 1..Len(driverPromise), ds \in DataSources :
          /\ SlotState(driverPromise, attempts, o, ds) \in {"empty", "pending", "resolved"}
          /\ Cardinality(Unsettled(o, ds)) <= 1)
  /\ [][\A o \in 1..Len(driverPromise), ds \in DataSources :
          LET before == SlotState(driverPromise, attempts, o, ds)
              after == SlotState(driverPromise', attempts', o, ds)
          IN \/ after = before /\ driverPromise'[o][ds] = driverPromise[o][ds]
             \/ <<before, after>> \in {<<"empty", "pending">>, <<"pending", "resolved">>,
                                        <<"pending", "empty">>}]_vars

\* The attempts of a slot that have succeeded.
Succeeded(o, ds) == {i \in AttemptsOf(o, ds) : attempts[i].pc = "resolved"}

\* A step on a slot whose acquisition has succeeded starts no attempt and no
\* testConnection call on it, and a getDriver call of that step returns the promise
\* of the successful attempt.
StaysWarm ==
  \A o \in 1..Len(driverPromise), ds \in DataSources :
    \A w \in Succeeded(o, ds) :
      /\ \A i \in 1..Len(attempts') :
           (attempts'[i].orch = o /\ attempts'[i].ds = ds) =>
             /\ i <= Len(attempts)
             /\ attempts'[i].tested = attempts[i].tested
             /\ attempts'[i].driver = attempts[i].driver
      /\ \A k \in 1..Len(calls') :
           (k > Len(calls) /\ calls'[k].orch = o /\ calls'[k].ds = ds) =>
             calls'[k].promise = w

\* C19 (warm slot): once an acquisition on a slot has succeeded, the slot holds its
\* handle, every later getDriver call on the slot returns that handle, and no
\* factory invocation and no testConnection call is made for the slot any more.
C19_WarmSlot ==
  /\ [](\A o \in 1..Len(driverPromise), ds \in DataSources :
          \A w \in Succeeded(o, ds) : driverPromise[o][ds] = w)
  /\ [][StaysWarm]_vars

\* A getDriver call made after the only attempt of its slot had settled holds the
\* handle of that attempt.
C19_Witness ==
  \E k \in 1..Len(calls) :
    /\ ~calls[k].early
    /\ attempts[calls[k].promise].pc = "resolved"
    /\ AttemptsOf(calls[k].orch, calls[k].ds) = {calls[k].promise}
    /\ attempts[calls[k].promise].tested = 1

\* C20 (attempt ordering): testConnection is called only on a handle the factory
\* returned and not after setLogger has thrown, and an attempt resolves, with that
\* handle, only after its testConnection call.
C20_AttemptOrdering ==
  \A i \in 1..Len(attempts) :
    LET a == attempts[i]
    IN /\ a.tested \in {0, 1}
       /\ a.tested = 1 => a.driver = i
       /\ a.err \in {"factory", "null", "setLogger"} => a.tested = 0
       /\ a.pc = "factory" => (a.driver = 0 /\ a.tested = 0)
       /\ a.pc = "test" => (a.driver = i /\ a.tested = 1 /\ a.err = "")
       /\ a.pc = "resolved" => (a.driver = i /\ a.tested = 1 /\ a.err = "")

\* One attempt has resolved after its testConnection call, and one has failed at
\* setLogger without a testConnection call.
C20_Witness ==
  \E i, j \in 1..Len(attempts) :
    /\ attempts[i].pc = "resolved" /\ attempts[i].tested = 1
    /\ attempts[j].err = "setLogger" /\ attempts[j].tested = 0 /\ attempts[j].driver = j

(* ---------------------- claims: external acquisition ------------------- *)
\* What is observable of an attempt and of a call, whichever function made it.
AttemptView(a) ==
  [orch |-> a.orch, pc |-> a.pc, driver |-> a.driver, err |-> a.err, errOf |-> a.errOf,
   tested |-> a.tested, released |-> a.released]

CallView(cl) == [ctx |-> cl.ctx, orch |-> cl.orch, promise |-> cl.promise, early |-> cl.early]

\* The default slot of every orchestrator with the getDriver attempts and calls, and
\* the external variable of every orchestrator with the getExternalDriverFactory
\* attempts and calls: the slot, every factory, testConnection and release call made
\* and every caller's promise.
PrimaryView ==
  [slot |-> [o \in 1..Len(driverPromise) |-> driverPromise[o]["default"]],
   attempts |-> [i \in 1..Len(attempts) |-> AttemptView(attempts[i])],
   calls |-> [k \in 1..Len(calls) |-> CallView(calls[k])]]

ExternalView ==
  [slot |-> [o \in 1..Len(externalPreAggregationsDriverPromise) |->
               externalPreAggregationsDriverPromise[o]],
   attempts |-> [i \in 1..Len(externalAttempts) |-> AttemptView(externalAttempts[i])],
   calls |-> [k \in 1..Len(externalCalls) |-> CallView(externalCalls[k])]]

SameView == PrimaryView = ExternalView

\* A step of getDriver('default') or of getExternalDriverFactory taken in lockstep
\* with the other one: from equal views, or to equal views.
Lockstep(A) == A /\ (SameView \/ SameView')

LockstepNext ==
  \/ \E t \in BOOLEAN : Lockstep(GetDriver("acme1", "default", t))
  \/ \E i \in 1..MaxAttempts : Lockstep(FactoryRejects(i))
  \/ \E i \in 1..MaxAttempts : Lockstep(FactoryReturnsNull(i))
  \/ \E i \in 1..MaxAttempts, l \in BOOLEAN, t \in BOOLEAN : Lockstep(FactoryReturns(i, l, t))
  \/ \E i \in 1..MaxAttempts : Lockstep(TestConnectionResolves(i))
  \/ \E i \in 1..MaxAttempts : Lockstep(TestConnectionRejects(i))
  \/ \E i \in 1..MaxAttempts : Lockstep(ReleaseResolves(i))
  \/ \E i \in 1..MaxAttempts : Lockstep(ReleaseRejects(i))
  \/ \E t \in BOOLEAN : Lockstep(GetExternalDriverFactory("acme1", t))
  \/ \E i \in 1..MaxAttempts : Lockstep(ExternalFactoryRejects(i))
  \/ \E i \in 1..MaxAttempts : Lockstep(ExternalFactoryReturnsNull(i))
  \/ \E i \in 1..MaxAttempts, l \in BOOLEAN, t \in BOOLEAN :
       Lockstep(ExternalFactoryReturns(i, l, t))
  \/ \E i \in 1..MaxAttempts : Lockstep(ExternalTestConnectionResolves(i))
  \/ \E i \in 1..MaxAttempts : Lockstep(ExternalTestConnectionRejects(i))
  \/ \E i \in 1..MaxAttempts : Lockstep(ExternalReleaseResolves(i))
  \/ \E i \in 1..MaxAttempts : Lockstep(ExternalReleaseRejects(i))

\* A step that changes the external variable, attempts or calls leaves every
\* driverPromise slot and every getDriver attempt and call as they were, and the
\* other way round.
SlotsIndependent ==
  LET external == /\ externalAttempts' = externalAttempts
                  /\ externalCalls' = externalCalls
                  /\ \A o \in 1..Len(externalPreAggregationsDriverPromise) :
                       externalPreAggregationsDriverPromise'[o] =
                         externalPreAggregationsDriverPromise[o]
      primary == /\ attempts' = attempts
                 /\ calls' = calls
                 /\ \A o \in 1..Len(driverPromise) : driverPromise'[o] = driverPromise[o]
  IN external \/ primary

\* C21 (external broker equivalence): whatever step getDriver('default') or
\* getExternalDriverFactory takes from a state in which the two have the same slot,
\* attempts and calls, the other one can take a step to the same slot, attempts and
\* calls again; and no step changes both.
C21_ExternalEquivalence ==
  /\ [](~SameView => ENABLED LockstepNext)
  /\ [][SlotsIndependent]_vars

\* After two calls of each function the two are in the same state: a first attempt
\* that failed at testConnection and released its handle, a second that resolved.
C21_Witness ==
  /\ SameView
  /\ Len(externalCalls) = 2 /\ Len(externalAttempts) = 2
  /\ externalAttempts[1].err = "test" /\ externalAttempts[1].released = 1
  /\ externalAttempts[1].pc = "rejected"
  /\ externalAttempts[2].pc = "resolved"
  /\ externalPreAggregationsDriverPromise[1] = 2
  /\ externalCalls[2].promise = 2

(* ------------------------- claims: live handles ------------------------ *)
\* The attempts on a slot whose handle the factory has produced and whose release()
\* has not completed: being tested, resolved, or being released.
LiveHandles(o, ds) ==
  {i \in AttemptsOf(o, ds) :
     attempts[i].driver # 0 /\ attempts[i].pc \in {"test", "resolved", "release"}}

\* An attempt on the slot was started while the handle of an earlier one is being
\* released.
StartedDuringRelease(o, ds) ==
  \E i, j \in AttemptsOf(o, ds) : i < j /\ attempts[i].pc = "release"

\* C31 (one live handle per slot): at most one handle that the factory produced and
\* whose release() has not completed exists per slot, and no attempt on a slot is
\* started, invoking the factory, while the handle of the failed attempt before it
\* is still being released.
C31_OneLiveHandle ==
  \A o \in 1..Len(orchestrators), ds \in DataSources :
    /\ Cardinality(LiveHandles(o, ds)) <= 1
    /\ ~StartedDuringRelease(o, ds)

(* ---------------------- claims: coordinator release -------------------- *)
IsReleaseConnections(k) == ops[k].name = "releaseConnections"

\* The interval of the scheduler, if there is one, is running.
SchedulerRunning(ivs, field) == field # 0 /\ ivs[field].state = "running"

\* The step in which releaseConnections goes past the registry release, resolved:
\* the registry is empty, the prune timer is cleared and the scheduler cancelled.
PastReleaseCancels(k) ==
  (ops[k].pc = "release" /\ ops'[k].pc = "cancel") =>
    /\ storage' = StorageReleased
    /\ ~maxCompilerCacheKeep'
    /\ ~SchedulerRunning(intervals', scheduledRefreshTimerInterval')

\* The step in which the registry release rejects, and releaseConnections with it:
\* the prune timer and the scheduler are as they were.
FailedReleaseLeavesTimers(k) ==
  (ops[k].pc = "release" /\ ops'[k].pc = "failed") =>
    /\ maxCompilerCacheKeep' = maxCompilerCacheKeep
    /\ intervals' = intervals
    /\ scheduledRefreshTimerInterval' = scheduledRefreshTimerInterval

\* The step in which releaseConnections returns without error.
ReturnsWithTimersOff(k) ==
  (ops[k].pc # "done" /\ ops'[k].pc = "done") =>
    /\ ops[k].pc = "cancel"
    /\ ~maxCompilerCacheKeep'
    /\ ~SchedulerRunning(intervals', scheduledRefreshTimerInterval')

\* The prune timer is cleared or a running scheduler stopped in this step.
TimersTouched ==
  \/ maxCompilerCacheKeep' # maxCompilerCacheKeep
  \/ \E n \in 1..Len(intervals) :
       intervals[n].state = "running" /\ intervals'[n].state # "running"

\* C32 (coordinator release ordering): releaseConnections() clears the prune timer
\* and cancels the scheduler only in the step after its registry release has
\* resolved; when it returns without error both are off; when the registry release
\* rejects both are left as they were.
C32_ReleaseOrdering ==
  [][/\ \A k \in 1..Len(ops) :
          IsReleaseConnections(k) =>
            /\ PastReleaseCancels(k)
            /\ FailedReleaseLeavesTimers(k)
            /\ ReturnsWithTimersOff(k)
     /\ TimersTouched =>
          \E k \in 1..Len(ops) :
            /\ IsReleaseConnections(k)
            /\ ops[k].pc = "release" /\ ops'[k].pc = "cancel"
            /\ storage' = StorageReleased]_vars

\* A first releaseConnections() failed with the registry release, a second one has
\* returned: the prune timer is cleared and the scheduler, which ran an invocation,
\* is cancelled.
C32_Witness ==
  /\ Len(ops) = 2
  /\ IsReleaseConnections(1) /\ ops[1].pc = "failed"
  /\ IsReleaseConnections(2) /\ ops[2].pc = "done"
  /\ ~maxCompilerCacheKeep
  /\ scheduledRefreshTimerInterval # 0
  /\ intervals[scheduledRefreshTimerInterval].state = "cancelled"
  /\ intervals[scheduledRefreshTimerInterval].intervalId > 0

(* --------------------- claims: coordinator getDriver ------------------- *)
\* A call made while no driver was stored has invoked the factory itself, and
\* testConnection once it had a handle; a call made with a driver stored has
\* invoked neither and has returned the stored driver; no handle is ever released.
EachCallAcquires ==
  \A c \in 1..Len(driverCalls) :
    LET call == driverCalls[c]
    IN /\ call.seen = 0 => call.invoked
       /\ call.seen = 0 => (call.tested <=> call.handle # 0)
       /\ (call.seen = 0 /\ call.pc = "done") => (call.tested /\ call.returned = call.handle)
       /\ call.seen # 0 =>
            /\ ~call.invoked /\ ~call.tested /\ call.handle = 0
            /\ call.pc = "done" /\ call.returned = call.seen
       /\ call.released = 0

\* The stored driver changes only when a testConnection resolves, to the handle of
\* that call; a call that fails stores nothing.
LastTestedIsStored ==
  /\ \A c \in 1..Len(driverCalls) :
       /\ (driverCalls[c].pc = "test" /\ driverCalls'[c].pc = "done") =>
            driver' = driverCalls[c].handle
       /\ (driverCalls[c].pc # "failed" /\ driverCalls'[c].pc = "failed") =>
            driver' = driver
  /\ driver' # driver =>
       \E c \in 1..Len(driverCalls) :
         driverCalls[c].pc = "test" /\ driverCalls'[c].pc = "done"

\* A call made once a driver is stored returns it at once, without the factory.
StoredIsReturned ==
  (driver # 0 /\ Len(driverCalls') > Len(driverCalls)) =>
    LET call == driverCalls'[Len(driverCalls')]
    IN call.pc = "done" /\ call.returned = driver /\ ~call.invoked /\ driver' = driver

\* C33 (fallback getDriver is not coalesced): every getDriver(ctx) call on the
\* coordinator made while no driver is stored invokes the factory and testConnection
\* itself; the stored driver is the handle whose testConnection resolved last, and
\* no other handle is released; a failed call stores nothing; once a driver is stored
\* a call returns it without invoking the factory.
C33_FallbackNotCoalesced ==
  /\ []EachCallAcquires
  /\ [][LastTestedIsStored /\ StoredIsReturned]_vars

\* Two concurrent calls have each got a handle from the factory and tested it; the
\* test of the first call resolved last, so its handle is stored and the handle of
\* the second is left unreleased; a third call has returned the stored driver.
C33_Witness ==
  /\ Len(driverCalls) = 3
  /\ driverCalls[1].seen = 0 /\ driverCalls[2].seen = 0
  /\ driverCalls[1].returned = 1 /\ driverCalls[2].returned = 2
  /\ driver = 1
  /\ driverCalls[2].released = 0
  /\ driverCalls[3].seen = 1 /\ driverCalls[3].returned = 1 /\ ~driverCalls[3].invoked

(* ------------------------ claims: scheduler period --------------------- *)
\* trunc(n) * 1000 for a non-zero number n, 30000 for another truthy setting, and
\* false (-1 here) for a falsy one.
TruncatedPeriod(setting) ==
  IF setting.kind = "number" /\ setting.v # 0 THEN IntegerPart(setting.v) * 1000
  ELSE IF setting.v # 0 THEN 30000
  ELSE -1

\* C34 (scheduler period): detectScheduledRefreshTimer maps a non-zero number n to
\* trunc(n) * 1000, another truthy setting to 30000 and a falsy one to false; a
\* scheduler exists only if that period is non-zero, so none exists for a number
\* between 0 and 1.
C34_SchedulerPeriod ==
  /\ detectScheduledRefreshTimer(optScheduledRefreshTimer) =
       TruncatedPeriod(optScheduledRefreshTimer)
  /\ intervals # <<>> => TruncatedPeriod(optScheduledRefreshTimer) \notin {-1, 0}
  /\ \A n \in 1..Len(intervals) :
       intervals[n].period = TruncatedPeriod(optScheduledRefreshTimer)

(* ------------------------ claims: slot lifetime ------------------------ *)
\* The orchestrator o is released in this step.
ReleasedNow(o) == orchestrators'[o].released > orchestrators[o].released

\* C22 (slot lifetime on release): the step in which the registry releases an
\* orchestrator leaves each of its slots, the external one included, empty, so
\* that a getDriver call made afterwards on that orchestrator starts a factory
\* invocation.
C22_SlotLifetime ==
  [][\A o \in 1..Len(orchestrators) :
       ReleasedNow(o) =>
         /\ driverPromise'[o] = EmptySlots
         /\ externalPreAggregationsDriverPromise'[o] = 0]_vars

\* A step of the compiler cache: a lookup that misses, inserts, evicts or expires
\* an entry, or a prune sweep.
CacheActivity ==
  /\ compilerCache' # compilerCache \/ compilers' # compilers \/ recency' # recency
  /\ ops' = ops

\* A step in which a registry release settles.
RegistryReleaseSettles ==
  \E k \in 1..Len(ops) :
    /\ ops[k].name \in {"releaseConnections", "resetInstanceState", "shutdown"}
    /\ ops[k].pc = "release" /\ ops'[k].pc # "release"

\* C23 (orchestrator lifetime): a step of the compiler cache leaves the registry,
\* the orchestrators and every acquisition slot as they were, and a registered
\* orchestrator leaves the registry only in a step in which a registry release
\* (of releaseConnections, resetInstanceState or shutdown) settles.
C23_OrchestratorLifetime ==
  [][/\ CacheActivity =>
          /\ storage' = storage /\ orchestrators' = orchestrators
          /\ driverPromise' = driverPromise /\ attempts' = attempts
          /\ externalVars' = externalVars
     /\ (\E id \in Registered : storage'[id] # storage[id]) => RegistryReleaseSettles]_vars

\* With room for one artifact, three artifacts have been built and the first was
\* built again after its expiry, while the orchestrator registered before them
\* still holds its resolved handle.
C23_Witness ==
  /\ compilers = 3
  /\ Len(compilerCache) = 1
  /\ clock > KeepAlive
  /\ storage["acme"] = 1
  /\ driverPromise[1]["default"] = 1
  /\ attempts[1].pc = "resolved"
  /\ orchestrators[1].released = 0

(* ------------------------- claims: failed builds ----------------------- *)
\* The entries of the cache a lookup can still hit, most recently used first.
LiveEntries(c) == LRUPrune(c)

\* A getCompilerApi whose build throws returns no artifact and builds none, leaves
\* the live entries and their order as they were, and leaves the key missing.
FailedBuildStoresNothing(ctx) ==
  GetCompilerApi(ctx, TRUE) =>
    /\ LiveEntries(compilerCache') = LiveEntries(compilerCache)
    /\ Len(compilerCache') <= Len(compilerCache)
    /\ compilers' = compilers
    /\ lastReturned'[CompilerCacheKey(ctx)] \in {0, lastReturned[CompilerCacheKey(ctx)]}
    /\ ~LRUGet(compilerCache', CompilerCacheKey(ctx), clock').hit

HitReturnsCached(ctx) ==
  LET key == CompilerCacheKey(ctx)
      got == LRUGet(compilerCache, key, clock)
  IN (GetCompilerApi(ctx, FALSE) /\ got.hit) =>
       /\ compilers' = compilers
       /\ Keys(compilerCache') = Keys(compilerCache)
       /\ compilerCache'[1].key = key
       /\ compilerCache'[1].value.id = got.cache[1].value.id
       /\ lastReturned'[key] = got.cache[1].value.id

\* After a getCompilerApi the artifact of its key carries the given binding.
LookupBinds(ctx, binding) ==
  GetCompilerApi(ctx, FALSE) =>
    /\ compilerCache'[1].key = CompilerCacheKey(ctx)
    /\ compilerCache'[1].value.schemaVersion = binding

\* The binding of an artifact changes only in a getCompilerApi for its key.
BindingChangesOnlyOnLookup ==
  \A i \in 1..Len(compilerCache), j \in 1..Len(compilerCache') :
    (/\ compilerCache[i].value.id = compilerCache'[j].value.id
     /\ compilerCache[i].value.schemaVersion # compilerCache'[j].value.schemaVersion) =>
       \E ctx \in Contexts : /\ GetCompilerApi(ctx, FALSE)
                              /\ CompilerCacheKey(ctx) = compilerCache[i].key

\* C26 as stated: a hit returns the cached artifact whatever the current schema
\* version is, and every lookup, hit or miss, leaves the artifact bound to the
\* version function of the context of that lookup.
C26_AlwaysBound ==
  [][/\ \A ctx \in Contexts : HitReturnsCached(ctx) /\ LookupBinds(ctx, ctx)
     /\ BindingChangesOnlyOnLookup]_vars

\* C26 (schema version does not evict): a hit returns the cached artifact whatever
\* the current schema version is, and no version change removes or replaces an
\* entry; every lookup, hit or miss, leaves the artifact's schemaVersion set to the
\* version function bound to the context of that lookup when the schemaVersion
\* option is configured, and to the unset option (undefined) when it is not; the
\* artifact keeps the setting of the most recent lookup for its key.
C26_SchemaVersionDoesNotEvict ==
  [][/\ \A ctx \in Contexts :
          /\ HitReturnsCached(ctx)
          /\ LookupBinds(ctx, IF optSchemaVersion THEN ctx ELSE "undefined")
     /\ BindingChangesOnlyOnLookup
     /\ SchemaVersionChanges =>
          /\ compilerCache' = compilerCache
          /\ compilers' = compilers]_vars

\* The one artifact of app "acme" was stored under the first schema version and
\* returned again, to context "acme2", under the second.
C26_Witness ==
  /\ optSchemaVersion
  /\ compilers = 1
  /\ Len(compilerCache) = 1
  /\ compilerCache[1].key = "acme"
  /\ compilerCache[1].value.versionStored = 1
  /\ compilerCache[1].value.versionBound = MaxVersions
  /\ compilerCache[1].value.schemaVersion = "acme2"

(* ------------------------- claims: refresh fan-out --------------------- *)
RefreshErrors(l) == {n \in 1..Len(l) : l[n] = <<"Refresh Scheduler Error", 0>>}

\* A run that has its list of contexts has one refresh for each element of the
\* list, on the normalized context; a run is resolved only with every refresh
\* resolved, is rejected with a refresh rejected (or without a list), and is
\* neither while refreshes are pending and none has rejected.
RunMatchesRefreshes(run) ==
  /\ Len(run.refreshes) = Len(run.contexts)
  /\ \A i \in 1..Len(run.contexts) :
       run.refreshes[i].context = migrateBackgroundContext(run.contexts[i])
  /\ run.pc = "contexts" => run.refreshes = <<>>
  /\ run.pc = "resolved" => AllResolved(run.refreshes)
  /\ run.pc = "rejected" =>
       \/ run.refreshes = <<>>
       \/ \E i \in 1..Len(run.refreshes) : run.refreshes[i].state = "rejected"
  /\ run.pc = "all" =>
       /\ \A i \in 1..Len(run.refreshes) : run.refreshes[i].state # "rejected"
       /\ \E i \in 1..Len(run.refreshes) : run.refreshes[i].state = "pending"

\* The step in which a run gets its list starts every refresh at once: all are
\* pending after it. An empty list is logged as 'Refresh Scheduler Error' and the
\* run is resolved with no refresh; no other list is logged as an error.
FanOutStep(r) ==
  (/\ refreshRuns[r].pc = "contexts"
   /\ refreshRuns'[r].pc \in {"all", "resolved"}) =>
     /\ \A i \in 1..Len(refreshRuns'[r].refreshes) :
          refreshRuns'[r].refreshes[i].state = "pending"
     /\ IF refreshRuns'[r].contexts = <<>>
          THEN /\ logged' = Append(logged, <<"Refresh Scheduler Error", 0>>)
               /\ refreshRuns'[r].pc = "resolved"
               /\ refreshRuns'[r].refreshes = <<>>
        ELSE /\ RefreshErrors(logged') = RefreshErrors(logged)
             /\ refreshRuns'[r].pc = "all"

\* The refreshes of a run, once started, stay the refreshes of the run.
RefreshesStay(r) ==
  refreshRuns[r].pc # "contexts" =>
    /\ refreshRuns'[r].contexts = refreshRuns[r].contexts
    /\ Len(refreshRuns'[r].refreshes) = Len(refreshRuns[r].refreshes)

\* C27 (refresh fan-out): a scheduler run starts exactly one runScheduledRefresh for
\* each context of the list it obtained, on the normalized context, all of them
\* before any is awaited; an empty list is logged as 'Refresh Scheduler Error' and
\* the run completes with zero refreshes; the run completes only when every
\* started refresh has completed, and fails as soon as one fails.
C27_RefreshFanOut ==
  /\ [](\A r \in 1..Len(refreshRuns) : RunMatchesRefreshes(refreshRuns[r]))
  /\ [][\A r \in 1..Len(refreshRuns) : FanOutStep(r) /\ RefreshesStay(r)]_vars

\* One run got no context, logged the error and completed; another got the null
\* context and an authInfo context and failed with the refresh of the second while
\* the refresh of the first, on the null context, was still pending.
C27_Witness ==
  /\ \E r \in 1..Len(refreshRuns) :
       /\ refreshRuns[r].pc = "resolved"
       /\ refreshRuns[r].contexts = <<>>
  /\ RefreshErrors(logged) # {}
  /\ \E r \in 1..Len(refreshRuns) :
       /\ refreshRuns[r].pc = "rejected"
       /\ refreshRuns[r].contexts = <<NullContext, AuthInfoContext>>
       /\ refreshRuns[r].refreshes[1] = [context |-> NullContext, state |-> "pending"]
       /\ refreshRuns[r].refreshes[2].state = "rejected"
       /\ refreshRuns[r].refreshes[2].context.securityContext = "x"

(* --------------------------- claims: tenancy --------------------------- *)
\* The orchestrators that contexts have been handed since the registry was last
\* cleared are one per orchestrator id, and no id has two orchestrators of one
\* registry epoch.
OneOrchestratorPer(resolver(_)) ==
  /\ \A c1, c2 \in Contexts :
       (seenOrch[c1] # 0 /\ seenOrch[c2] # 0 /\ resolver(c1) = resolver(c2)) =>
         seenOrch[c1] = seenOrch[c2]
  /\ \A o1, o2 \in 1..Len(orchestrators) :
       (/\ orchestrators[o1].id = orchestrators[o2].id
        /\ orchestrators[o1].epoch = orchestrators[o2].epoch) => o1 = o2

\* A step leaves the artifact last returned for an app id in place unless the
\* cache has forgotten it in between: no second artifact is built for the key.
OneArtifactPerAppId ==
  \A k \in AppIds : (lastReturned[k] # 0 /\ lastReturned'[k] # 0) =>
                       lastReturned'[k] = lastReturned[k]

\* C5 as stated: contexts of one tenant key (the app id) observe the same compiler
\* artifact and the same orchestrator while nothing is evicted, expired or reset.
C5_OneKeyResolver ==
  /\ [](OneOrchestratorPer(contextToAppId))
  /\ [][OneArtifactPerAppId]_vars

\* C5 (tenant identity, per resolver): contexts that contextToAppId maps to one key
\* observe the same compiler artifact, built once, and contexts that
\* contextToOrchestratorId maps to one id observe the same orchestrator, built once,
\* while nothing is evicted, expired or reset.
C5_TenantIdentity ==
  /\ [](OneOrchestratorPer(contextToOrchestratorId))
  /\ [][OneArtifactPerAppId]_vars

\* Both contexts of app "acme" have been served: one artifact was built for them
\* and, with a resolver of its own for the registry, two orchestrators.
C5_Witness ==
  /\ optOrchestratorIdFn
  /\ seenOrch["acme1"] # 0 /\ seenOrch["acme2"] # 0
  /\ seenOrch["acme1"] # seenOrch["acme2"]
  /\ lastReturned["acme"] # 0
  /\ compilers = 1
  /\ Len(compilerCache) = 1
  /\ compilerCache[1].value.schemaVersion = "acme2"

(* ------------------------ claims: compiler cache ----------------------- *)
\* The configured capacity: compilerCacheSize, or 250 when it is not given.
CacheLimit ==
  IF optCompilerCacheSize # 0 THEN optCompilerCacheSize ELSE DefaultCompilerCacheSize

\* A step that builds an artifact stores it under its key and removes nothing,
\* unless the key is new and the cache is full: then the key that removes is the
\* least recently used one.
EvictsLeastRecentlyUsed ==
  compilers' = compilers + 1 =>
    /\ compilerCache' # <<>>
    /\ LET k == compilerCache'[1].key
           gone == Keys(compilerCache) \ Keys(compilerCache')
           full == Len(compilerCache) = CacheLimit /\ k \notin Keys(compilerCache)
       IN /\ compilerCache'[1].value.id = compilers'
          /\ Keys(compilerCache') = (Keys(compilerCache) \ gone) \cup {k}
          /\ gone = IF full THEN {recency[Len(recency)]} ELSE {}

\* C6 (cache capacity): the compiler cache never holds more than compilerCacheSize
\* (default 250) entries, and a getCompilerApi miss that inserts into a full cache
\* evicts exactly the least recently used key.
C6_Capacity ==
  /\ [](Len(compilerCache) <= CacheLimit)
  /\ [][EvictsLeastRecentlyUsed]_vars

\* With max = 2 and lookups for acme, beta and gamma in that order, acme has been
\* evicted and beta and gamma are cached.
C6_Witness ==
  /\ optCompilerCacheSize = 2 /\ optMaxAge = 0
  /\ compilers = 3
  /\ recency = <<"gamma", "beta">>
  /\ Keys(compilerCache) = {"beta", "gamma"}
  /\ lastReturned["acme"] = 0
  /\ \E i \in 1..2 : compilerCache[i].key = "beta" /\ compilerCache[i].value.id = 2

\* Every cached artifact was last returned within max-age of its construction.
ReturnedWithinMaxAgeOfBuild ==
  \A i \in 1..Len(compilerCache) :
    compilerCache[i].value.touched - compilerCache[i].value.born <= optMaxAge

\* A step that returns a cached artifact at a later time than its previous return
\* does so within max-age of that previous return.
ReturnedWithinMaxAgeOfLastUse ==
  \A i \in 1..Len(compilerCache), j \in 1..Len(compilerCache') :
    (/\ compilerCache'[j].value.id = compilerCache[i].value.id
     /\ compilerCache'[j].value.touched > compilerCache[i].value.touched) =>
       compilerCache'[j].value.touched - compilerCache[i].value.touched <= optMaxAge

\* C7 as stated: with a max-age configured, no getCompilerApi call returns a cached
\* artifact older than max-age.
C7_NoHitOlderThanMaxAge == optMaxAge # 0 => ReturnedWithinMaxAgeOfBuild

\* C7 (cache expiry, per option): with a max-age configured, no getCompilerApi call
\* returns a cached artifact older than max-age, swept or not; with
\* updateCompilerCacheKeepAlive the age counts from the artifact's last return.
C7_Expiry ==
  /\ []((optMaxAge # 0 /\ ~optUpdateAgeOnGet) => ReturnedWithinMaxAgeOfBuild)
  /\ [][(optMaxAge # 0 /\ optUpdateAgeOnGet) => ReturnedWithinMaxAgeOfLastUse]_vars

\* In a cache that cannot be full, the first artifact is gone and a lookup later than
\* max-age has built the second one.
C7_Witness ==
  /\ optMaxAge # 0 /\ ~optUpdateAgeOnGet /\ optCompilerCacheSize = 0
  /\ compilers = 2
  /\ clock > optMaxAge
  /\ Len(compilerCache) = 1
  /\ compilerCache[1].value.id = 2
  /\ compilerCache[1].value.born = clock

(* ------------------------- claims: refresh timer ----------------------- *)
InFlight(iv) == {i \in 1..Len(iv.runs) : ~iv.runs[i].done}

\* C8 (non-overlap): an interval never has two invocations of its unit of work in
\* flight, whatever ticks fall due while one is running.
C8_NonOverlap ==
  \A n \in 1..Len(intervals) : Cardinality(InFlight(intervals[n])) <= 1

\* Ticks have fallen due during the second invocation, which is still the only one
\* in flight.
C8_Witness ==
  \E n \in 1..Len(intervals) :
    /\ Len(intervals[n].runs) = 2
    /\ intervals[n].runs[2].due > 0
    /\ InFlight(intervals[n]) = {2}

Count(log, e) == Cardinality({j \in 1..Len(log) : log[j] = e})

\* C9 (overrun diagnostics): an invocation during which ticks fell due has exactly
\* one 'Refresh Scheduler Interval Error' event and, once it has completed, exactly
\* one 'Refresh Scheduler Long Execution' event of its interval id; any other
\* invocation has neither.
C9_OverrunDiagnostics ==
  \A n \in 1..Len(intervals) :
    /\ \A j \in 1..Len(logged) : logged[j][2] \in 1..Len(intervals[n].runs)
    /\ \A i \in 1..Len(intervals[n].runs) :
         LET run == intervals[n].runs[i]
         IN /\ Count(logged, <<"Refresh Scheduler Interval Error", i>>) =
                 (IF run.due > 0 THEN 1 ELSE 0)
            /\ Count(logged, <<"Refresh Scheduler Long Execution", i>>) =
                 (IF run.due > 0 /\ run.done THEN 1 ELSE 0)

\* An invocation that two ticks fell due in and one that no tick fell due in have
\* both completed.
C9_Witness ==
  \E n \in 1..Len(intervals) : \E i1, i2 \in 1..Len(intervals[n].runs) :
    /\ intervals[n].runs[i1].due >= 2 /\ intervals[n].runs[i1].done
    /\ intervals[n].runs[i2].due = 0 /\ intervals[n].runs[i2].done

NoRunAfterCancel ==
  (\E n \in 1..Len(intervals) : intervals[n].state # "running") =>
    /\ Len(intervals') = Len(intervals)
    /\ \A n \in 1..Len(intervals) :
         /\ Len(intervals'[n].runs) = Len(intervals[n].runs)
         /\ intervals[n].state # "running" => intervals'[n].state # "running"

\* C11 (cancelled is terminal): after cancel has been called on the refresh
\* interval, gracefully or not, no refresh run is started any more, whatever is
\* called later, startScheduledRefreshTimer and resetInstanceState included.
C11_CancelledIsTerminal == [][NoRunAfterCancel]_vars

\* beforeShutdown has cancelled the interval after one invocation, and a later
\* resetInstanceState, which calls startScheduledRefreshTimer, has completed.
C11_Witness ==
  /\ Len(ops) >= 2
  /\ ops[1].name = "beforeShutdown"
  /\ ops[2].name = "resetInstanceState" /\ ops[2].pc = "done"
  /\ Len(intervals) = 1
  /\ intervals[1].state = "cancelled"
  /\ Len(intervals[1].runs) = 1
  /\ scheduledRefreshTimerInterval = 1

\* A step that empties the registry has invoked release() on every orchestrator
\* that was registered.
ReleasesEveryRegistered ==
  clears' = clears + 1 =>
    /\ \A id \in Registered :
         orchestrators'[storage[id]].released = orchestrators[storage[id]].released + 1
    /\ \A id \in DOMAIN storage : storage'[id] = 0

\* A registry release that has settled, resolved or rejected.
ReleaseSettled(op) ==
  /\ op.name \in {"releaseConnections", "resetInstanceState", "shutdown"}
  /\ op.pc # "release"

LegacyOnly(ctx) ==
  ctx # NullContext /\ IsSet(ctx.authInfo) /\ ~IsSet(ctx.securityContext)

CurrentOnly(ctx) ==
  ctx # NullContext /\ IsSet(ctx.securityContext) /\ ~IsSet(ctx.authInfo)

\* C13 (context normalization): migrateBackgroundContext returns a context with
\* only authInfo = x with authInfo = x and securityContext = x, a context with only
\* securityContext = y with authInfo = y and securityContext = y, its other fields
\* kept, and null for null.
C13_Normalization ==
  \A j \in 1..Len(migrations) :
    LET ctx == migrations[j].ctx
        result == migrations[j].result
    IN /\ ctx = NullContext => result = NullContext
       /\ LegacyOnly(ctx) =>
            /\ result # NullContext
            /\ result.authInfo = ctx.authInfo /\ result.securityContext = ctx.authInfo
            /\ result.tenant = ctx.tenant
       /\ CurrentOnly(ctx) =>
            /\ result # NullContext
            /\ result.authInfo = ctx.securityContext
            /\ result.securityContext = ctx.securityContext
            /\ result.tenant = ctx.tenant

\* A context with only authInfo and one with only securityContext have been
\* migrated.
C13_Witness ==
  \E j1, j2 \in 1..Len(migrations) :
    /\ LegacyOnly(migrations[j1].ctx) /\ migrations[j1].ctx.securityContext = "undefined"
    /\ CurrentOnly(migrations[j2].ctx) /\ migrations[j2].ctx.authInfo = "undefined"

\* C14 (pass-through): migrateBackgroundContext returns a non-null context in which
\* both authInfo and securityContext are set, or neither is, equal to its argument.
C14_PassThrough ==
  \A j \in 1..Len(migrations) :
    LET ctx == migrations[j].ctx
    IN (ctx # NullContext /\ IsSet(ctx.authInfo) = IsSet(ctx.securityContext)) =>
         migrations[j].result = ctx

\* C15 (one-time deprecation): 'auth_info_deprecation' has been logged exactly once
\* if a migrateBackgroundContext call had a context with authInfo and without
\* securityContext, and never otherwise.
C15_OneTimeDeprecation ==
  Cardinality({j \in 1..Len(logged) : logged[j][1] = "auth_info_deprecation"}) =
    (IF \E j \in 1..Len(migrations) : LegacyOnly(migrations[j].ctx) THEN 1 ELSE 0)

\* C28 (normalization invariant): the result of migrateBackgroundContext is null, or
\* a context whose authInfo and securityContext are both populated and equal.
C28_NormalizationInvariant ==
  \A j \in 1..Len(migrations) :
    LET result == migrations[j].result
    IN result # NullContext =>
         /\ IsSet(result.authInfo) /\ IsSet(result.securityContext)
         /\ result.authInfo = result.securityContext

\* A context with two different payloads and a context with neither field set have
\* been migrated: the first to equal fields, the second to null.
C28_Witness ==
  \E j1, j2 \in 1..Len(migrations) :
    /\ migrations[j1].ctx # NullContext /\ migrations[j2].ctx # NullContext
    /\ migrations[j1].ctx.authInfo = "x" /\ migrations[j1].ctx.securityContext = "y"
    /\ migrations[j1].result # NullContext
    /\ migrations[j2].ctx.authInfo = "" /\ migrations[j2].ctx.securityContext = "undefined"
    /\ migrations[j2].result = NullContext

\* C17 (teardown): when shutdown() completes, the registry is empty and its
\* orchestrators are released, the refresh interval is cancelled and the prune
\* timer is cleared.
C17_Teardown ==
  [][\A k \in 1..Len(ops) :
       (ops[k].name = "shutdown" /\ ops[k].pc = "release" /\ ops'[k].pc = "done") =>
         /\ \A id \in DOMAIN storage : storage'[id] = 0
         /\ \A o \in 1..Len(orchestrators') : orchestrators'[o].released = 1
         /\ \A n \in 1..Len(intervals') : intervals'[n].state # "running"
         /\ ~maxCompilerCacheKeep']_vars

(* ------------------------ claims: administrative reset ---------------- *)
\* The step in which the resetInstanceState call k settles, resolved or rejected.
ResetSettles(k) ==
  /\ ops[k].name = "resetInstanceState"
  /\ ops[k].pc = "release" /\ ops'[k].pc \in {"done", "failed"}

\* C24 (administrative reset): when resetInstanceState() settles, also after the
\* release of a tenant has failed, the registry is empty and the compiler cache has
\* no entries; an orchestrator built afterwards has empty slots.
C24_AdministrativeReset ==
  [][/\ \A k \in 1..Len(ops) :
          ResetSettles(k) =>
            /\ \A id \in DOMAIN storage : storage'[id] = 0
            /\ compilerCache' = <<>>
     /\ Len(orchestrators') > Len(orchestrators) =>
          driverPromise'[Len(orchestrators')] = EmptySlots]_vars

(* ------------------------ claims: scheduler start --------------------- *)
\* What a call of startScheduledRefreshTimer() made now would do.
StartNow ==
  startScheduledRefreshTimer(optDbType, envDbType, intervals, scheduledRefreshTimerInterval)

\* The same call made once more after that one.
StartTwice ==
  startScheduledRefreshTimer(optDbType, envDbType, StartNow.intervals, StartNow.field)

\* C29 (single scheduler): the coordinator never has more than one cancelable
\* interval; it has none while it is not ready for query processing or its timer
\* setting is falsy, and startScheduledRefreshTimer then returns false; and a second
\* call in a row changes nothing and returns what the first returned.
C29_SingleScheduler ==
  /\ Len(intervals) <= 1
  /\ (~isReadyForQueryProcessing(optDbType, envDbType) \/ ~Truthy(optScheduledRefreshTimer)) =>
       /\ intervals = <<>> /\ scheduledRefreshTimerInterval = 0
       /\ StartNow = [intervals |-> <<>>, field |-> 0, result |-> FALSE]
  /\ StartTwice = StartNow

\* Two resetInstanceState calls, each of which calls startScheduledRefreshTimer, have
\* completed: there is one interval, and it is running.
C29_Witness ==
  /\ Len(ops) = 2
  /\ ops[1].name = "resetInstanceState" /\ ops[1].pc = "done"
  /\ ops[2].name = "resetInstanceState" /\ ops[2].pc = "done"
  /\ Len(intervals) = 1 /\ intervals[1].state = "running"
  /\ scheduledRefreshTimerInterval = 1

\* C30 (started means running): whenever startScheduledRefreshTimer returns true, the
\* interval the coordinator holds is running, the call that resetInstanceState
\* makes after a releaseConnections or beforeShutdown included.
C30_StartedMeansRunning ==
  /\ [](StartNow.result => /\ StartNow.field # 0
                           /\ StartNow.intervals[StartNow.field].state = "running")
  /\ [][\A k \in 1..Len(ops) :
          (/\ ops[k].name = "resetInstanceState"
           /\ ops[k].pc = "release" /\ ops'[k].pc = "done"
           /\ scheduledRefreshTimerInterval' # 0) =>
            intervals'[scheduledRefreshTimerInterval'].state = "running"]_vars

(* ----------------------------- specification --------------------------- *)
\* The state after construction of a coordinator with the given options.
InitState(idFns, cacheSizes, maxAges, updates, dbTypes, timers) ==
  /\ optOrchestratorIdFn \in idFns
  /\ optCompilerCacheSize \in cacheSizes
  /\ optMaxAge \in maxAges
  /\ optUpdateAgeOnGet \in updates
  /\ \E p \in dbTypes : optDbType = p[1] /\ envDbType = p[2]
  /\ optScheduledRefreshTimer \in timers
  /\ orchestrators = <<>>
  /\ storage = [id \in OrchestratorIds |-> 0]
  /\ clears = 0
  /\ held = [c \in Contexts |-> 0]
  /\ seenOrch = [c \in Contexts |-> 0]
  /\ driverPromise = <<>>
  /\ attempts = <<>>
  /\ calls = <<>>
  /\ compilerCache = <<>>
  /\ clock = 0
  /\ compilers = 0
  /\ maxCompilerCacheKeep = (optMaxAge # 0)
  /\ lastReturned = [k \in AppIds \cup Contexts |-> 0]
  /\ recency = <<>>
  /\ LET r == startScheduledRefreshTimer(optDbType, envDbType, <<>>, 0)
     IN /\ intervals = r.intervals
        /\ scheduledRefreshTimerInterval = r.field
  /\ logged = <<>>
  /\ ops = <<>>
  /\ warningBackgroundContextShow = FALSE
  /\ migrations = <<>>
  /\ refreshRuns = <<>>
  /\ driver = 0
  /\ driverCalls = <<>>
  /\ externalPreAggregationsDriverPromise = <<>>
  /\ externalAttempts = <<>>
  /\ externalCalls = <<>>

\* A coordinator whose schemaVersion option is configured.
InitWith(idFns, cacheSizes, maxAges, updates, dbTypes, timers) ==
  /\ InitState(idFns, cacheSizes, maxAges, updates, dbTypes, timers)
  /\ optSchemaVersion = TRUE
  /\ currentVersion = 1

SchedulerOff == {[kind |-> "boolean", v |-> 0]}
Configured == {<<TRUE, TRUE>>}

\* Driver acquisition through the orchestrators of the registry.
InitBroker == InitWith(BOOLEAN, {0}, {0}, {FALSE}, Configured, SchedulerOff)

NextBroker ==
  \/ \E ctx \in BrokerContexts : GetOrchestratorApi(ctx)
  \/ \E ctx \in BrokerContexts, dsArg \in DataSources \cup {"undefined"}, t \in BOOLEAN :
       GetDriver(ctx, dsArg, t)
  \/ \E i \in 1..MaxAttempts : FactoryRejects(i)
  \/ \E i \in 1..MaxAttempts : FactoryReturnsNull(i)
  \/ \E i \in 1..MaxAttempts, l \in BOOLEAN, t \in BOOLEAN : FactoryReturns(i, l, t)
  \/ \E i \in 1..MaxAttempts : TestConnectionResolves(i)
  \/ \E i \in 1..MaxAttempts : TestConnectionRejects(i)
  \/ \E i \in 1..MaxAttempts : ReleaseResolves(i)
  \/ \E i \in 1..MaxAttempts : ReleaseRejects(i)

SpecBroker == InitBroker /\ [][NextBroker]_vars

\* The compiler cache and the registry under lookups, time, sweeps and resets.
InitCache ==
  InitWith({FALSE}, CompilerCacheSizes, {0, KeepAlive}, BOOLEAN, Configured, SchedulerOff)

NextCache ==
  \/ \E ctx \in Contexts, t \in BOOLEAN : GetCompilerApi(ctx, t)
  \/ Tick
  \/ PruneTimerFires

SpecCache == InitCache /\ [][NextCache]_vars

\* Compiler artifacts and orchestrators of the tenants under lookups and resets.
TenantContexts == {"acme1", "acme2", "beta"}

InitTenant == InitWith(BOOLEAN, {1}, {0}, {FALSE}, Configured, SchedulerOff)

NextTenant ==
  \/ \E ctx \in TenantContexts, t \in BOOLEAN : GetCompilerApi(ctx, t)
  \/ \E ctx \in BrokerContexts : GetOrchestratorApi(ctx)
  \/ ResetInstanceStateCall
  \/ \E k \in 1..MaxOps, ok \in BOOLEAN : ResetInstanceStateResume(k, ok)

SpecTenant == InitTenant /\ [][NextTenant]_vars

\* The scheduled refresh interval: its start, its ticks and its invocations.
InitSched ==
  InitWith({FALSE}, {0}, {0}, {FALSE},
           {<<FALSE, FALSE>>, <<TRUE, FALSE>>, <<TRUE, TRUE>>}, TimerSettings)

NextSched ==
  \/ StartScheduledRefreshTimer
  \/ EnvDbTypeSet
  \/ \E n \in 1..Len(intervals) : IntervalTick(n)
  \/ \E n \in 1..Len(intervals), i \in 1..MaxRuns : RunSettles(n, i)

SpecSched == InitSched /\ [][NextSched]_vars

\* A configured coordinator with its refresh interval running, and the calls that
\* cancel the interval.
SchedulerOn == {[kind |-> "boolean", v |-> 1]}

InitShutdown == InitWith({FALSE}, {0}, {KeepAlive}, {FALSE}, Configured, SchedulerOn)

NextShutdown ==
  \/ \E n \in 1..Len(intervals) : IntervalTick(n)
  \/ \E n \in 1..Len(intervals), i \in 1..MaxRuns : RunSettles(n, i)
  \/ GetOrchestratorApi("beta")
  \/ BeforeShutdownCall
  \/ ReleaseConnectionsCall
  \/ \E k \in 1..MaxOps, ok \in BOOLEAN : ReleaseConnectionsResume(k, ok)
  \/ \E k \in 1..MaxOps : OpReturn(k)

SpecShutdown == InitShutdown /\ [][NextShutdown]_vars

\* A configured coordinator with its refresh interval running, under the calls that
\* cancel the interval and those that start it.
NextCancelled ==
  \/ StartScheduledRefreshTimer
  \/ \E n \in 1..Len(intervals) : IntervalTick(n)
  \/ \E n \in 1..Len(intervals), i \in 1..MaxRuns : RunSettles(n, i)
  \/ BeforeShutdownCall
  \/ ReleaseConnectionsCall
  \/ \E k \in 1..MaxOps, ok \in BOOLEAN : ReleaseConnectionsResume(k, ok)
  \/ \E k \in 1..MaxOps : OpReturn(k)
  \/ ResetInstanceStateCall
  \/ \E k \in 1..MaxOps, ok \in BOOLEAN : ResetInstanceStateResume(k, ok)

SpecCancelled == InitShutdown /\ [][NextCancelled]_vars

\* Coordinators of every readiness and timer setting, under the calls that start
\* the refresh interval and those that cancel it.
NextStart ==
  \/ StartScheduledRefreshTimer
  \/ EnvDbTypeSet
  \/ BeforeShutdownCall
  \/ \E k \in 1..MaxOps : OpReturn(k)
  \/ ResetInstanceStateCall
  \/ \E k \in 1..MaxOps, ok \in BOOLEAN : ResetInstanceStateResume(k, ok)

SpecStart == InitSched /\ [][NextStart]_vars

\* A configured coordinator with tenants registered, its refresh interval and its
\* prune timer set, under the calls that release, reset and shut down.
TeardownContexts == {"acme1", "beta"}

NextTeardown ==
  \/ \E ctx \in TeardownContexts : GetOrchestratorApi(ctx)
  \/ BeforeShutdownCall
  \/ ReleaseConnectionsCall
  \/ \E k \in 1..MaxOps, ok \in BOOLEAN : ReleaseConnectionsResume(k, ok)
  \/ \E k \in 1..MaxOps : OpReturn(k)
  \/ ResetInstanceStateCall
  \/ \E k \in 1..MaxOps, ok \in BOOLEAN : ResetInstanceStateResume(k, ok)
  \/ ShutdownCall
  \/ \E k \in 1..MaxOps, ok \in BOOLEAN : ShutdownResume(k, ok)

SpecTeardown == InitShutdown /\ [][NextTeardown]_vars

\* The background contexts that runScheduledRefresh is given.
NextContext ==
  \E ctx \in UserBackgroundContexts \cup {NullContext} : MigrateBackgroundContext(ctx)

SpecContext == InitShutdown /\ [][NextContext]_vars

\* A registered orchestrator with a driver, beside a compiler cache of one entry
\* with a max-age, under lookups, time, prune sweeps and a registry release.
InitLifetime == InitWith({FALSE}, {1}, {KeepAlive}, {FALSE}, Configured, SchedulerOff)

NextLifetime ==
  \/ \E ctx \in TeardownContexts : GetCompilerApi(ctx, FALSE)
  \/ Tick
  \/ PruneTimerFires
  \/ GetOrchestratorApi("acme1")
  \/ GetDriver("acme1", "default", FALSE)
  \/ \E i \in 1..MaxAttempts : FactoryReturns(i, TRUE, FALSE)
  \/ \E i \in 1..MaxAttempts : TestConnectionResolves(i)
  \/ ShutdownCall
  \/ \E k \in 1..MaxOps : ShutdownResume(k, TRUE)

SpecLifetime == InitLifetime /\ [][NextLifetime]_vars

\* The compiler cache with a max-age under lookups whose build may throw, between
\* two sweeps of the prune timer.
InitBuild == InitWith({FALSE}, {1, 2}, {KeepAlive}, BOOLEAN, Configured, SchedulerOff)

NextBuild ==
  \/ \E ctx \in Contexts, t \in BOOLEAN : GetCompilerApi(ctx, t)
  \/ Tick

SpecBuild == InitBuild /\ [][NextBuild]_vars

\* The compiler cache under lookups while the schema version changes, with and
\* without a schemaVersion option.
InitVersion ==
  /\ InitState({FALSE}, {0, 1}, {0}, {FALSE}, Configured, SchedulerOff)
  /\ optSchemaVersion \in BOOLEAN
  /\ currentVersion = 1

NextVersion ==
  \/ \E ctx \in Contexts : GetCompilerApi(ctx, FALSE)
  \/ SchemaVersionChanges

SpecVersion == InitVersion /\ [][NextVersion]_vars

\* Scheduler runs: the list of background contexts and the refreshes started on it.
InitFanOut == InitWith({FALSE}, {0}, {0}, {FALSE}, Configured, SchedulerOff)

NextFanOut ==
  \/ HandleScheduledRefreshInterval
  \/ \E r \in 1..MaxRuns, contexts \in RefreshContextLists :
       ScheduledRefreshContextsResolves(r, contexts)
  \/ \E r \in 1..MaxRuns : ScheduledRefreshContextsRejects(r)
  \/ \E r \in 1..Len(refreshRuns) :
       \E i \in 1..Len(refreshRuns[r].refreshes) : RefreshResolves(r, i)
  \/ \E r \in 1..Len(refreshRuns) :
       \E i \in 1..Len(refreshRuns[r].refreshes) : RefreshRejects(r, i)

SpecFanOut == InitFanOut /\ [][NextFanOut]_vars

\* A configured coordinator with its refresh interval running and its prune timer
\* set, under releaseConnections() with a registry release that may reject.
NextCoordinatorRelease ==
  \/ \E n \in 1..Len(intervals) : IntervalTick(n)
  \/ \E n \in 1..Len(intervals), i \in 1..MaxRuns : RunSettles(n, i)
  \/ GetOrchestratorApi("beta")
  \/ ReleaseConnectionsCall
  \/ \E k \in 1..MaxOps, ok \in BOOLEAN : ReleaseConnectionsResume(k, ok)
  \/ \E k \in 1..MaxOps : OpReturn(k)

SpecCoordinatorRelease == InitShutdown /\ [][NextCoordinatorRelease]_vars

\* getDriver(ctx) on the coordinator itself, called concurrently.
InitFallback == InitWith({FALSE}, {0}, {0}, {FALSE}, Configured, SchedulerOff)

NextFallback ==
  \/ \E t \in BOOLEAN : CoordinatorGetDriver(t)
  \/ \E c \in 1..MaxDriverCalls : DriverFactoryResolves(c)
  \/ \E c \in 1..MaxDriverCalls : DriverFactoryFails(c)
  \/ \E c \in 1..MaxDriverCalls : DriverTestConnectionResolves(c)
  \/ \E c \in 1..MaxDriverCalls : DriverTestConnectionRejects(c)

SpecFallback == InitFallback /\ [][NextFallback]_vars

\* Coordinators of every readiness and of timer settings down to fractions of a
\* microsecond, under the calls that start the refresh interval.
InitPeriod ==
  InitWith({FALSE}, {0}, {0}, {FALSE},
           {<<FALSE, FALSE>>, <<TRUE, FALSE>>, <<TRUE, TRUE>>}, PeriodSettings)

SpecPeriod == InitPeriod /\ [][NextStart]_vars

\* An orchestrator whose drivers are acquired and whose registry is released, reset
\* and shut down while a context still holds it.
NextRelease ==
  \/ GetOrchestratorApi("acme1")
  \/ GetDriver("acme1", "default", FALSE)
  \/ \E i \in 1..MaxAttempts : FactoryReturns(i, TRUE, FALSE)
  \/ \E i \in 1..MaxAttempts : TestConnectionResolves(i)
  \/ GetExternalDriverFactory("acme1", FALSE)
  \/ \E i \in 1..MaxAttempts : ExternalFactoryReturns(i, TRUE, FALSE)
  \/ \E i \in 1..MaxAttempts : ExternalTestConnectionResolves(i)
  \/ ReleaseConnectionsCall
  \/ \E k \in 1..MaxOps : ReleaseConnectionsResume(k, TRUE)
  \/ \E k \in 1..MaxOps : OpReturn(k)
  \/ ResetInstanceStateCall
  \/ \E k \in 1..MaxOps : ResetInstanceStateResume(k, TRUE)
  \/ ShutdownCall
  \/ \E k \in 1..MaxOps : ShutdownResume(k, TRUE)

InitRelease == InitWith({FALSE}, {0}, {0}, {FALSE}, Configured, SchedulerOff)

SpecRelease == InitRelease /\ [][NextRelease]_vars

\* getDriver('default') and getExternalDriverFactory of one orchestrator, each
\* following the other step by step.
NextExternal ==
  \/ GetOrchestratorApi("acme1")
  \/ LockstepNext

SpecExternal == InitBroker /\ [][NextExternal]_vars

\* Driver acquisition on the default data source and on the external storage.
NextSlots ==
  \/ \E ctx \in BrokerContexts : GetOrchestratorApi(ctx)
  \/ \E ctx \in BrokerContexts, t \in BOOLEAN : GetDriver(ctx, "default", t)
  \/ \E i \in 1..MaxAttempts : FactoryRejects(i)
  \/ \E i \in 1..MaxAttempts : FactoryReturnsNull(i)
  \/ \E i \in 1..MaxAttempts, l \in BOOLEAN, t \in BOOLEAN : FactoryReturns(i, l, t)
  \/ \E i \in 1..MaxAttempts : TestConnectionResolves(i)
  \/ \E i \in 1..MaxAttempts : TestConnectionRejects(i)
  \/ \E i \in 1..MaxAttempts : ReleaseResolves(i)
  \/ \E i \in 1..MaxAttempts : ReleaseRejects(i)
  \/ GetExternalDriverFactory("acme1", FALSE)
  \/ \E i \in 1..MaxAttempts : ExternalFactoryReturns(i, TRUE, FALSE)
  \/ \E i \in 1..MaxAttempts : ExternalTestConnectionResolves(i)

SpecSlots == InitBroker /\ [][NextSlots]_vars

====
